---- MODULE Spec2Model ----
(***************************************************************************)
(* Model of the rule reconciliation core of tsuru/acl-api: the sync lock   *)
(* store (storage/mongodb sync storage), the rule service's SyncStart /    *)
(* SyncEnd with the lock keep-alive loop (rule/service.go) and the sync    *)
(* coordinator (engine package: syncRule, engineSync, SyncRules).          *)
(*                                                                         *)
(* Time is a discrete clock `now`; durations are counted in clock ticks.   *)
(* In SpecStore and SpecCycles every storage call returns the result of    *)
(* its query; in Spec a StartSync call may also fail with a storage error. *)
(***************************************************************************)
EXTENDS Integers, Sequences, FiniteSets, TLC

(***************************************************************************)
(* Bounds of the model.                                                    *)
(***************************************************************************)
\* Last instant of the clock.
MaxTime == 5
\* Rule IDs are 1..NumRules, engine names 1..NumEngines.
NumRules == 2
NumEngines == 2
\* Direct callers of the sync storage (specification SpecStore).
NumCallers == 2
\* SpecStore stops acquiring a key whose history holds this many outcomes.
MaxStoreSyncs == 2
\* lockExpireTime at start-up (5 minutes in the source), in ticks.
LockExpireDefault == 2
\* The value SetLockExpireTime sets (the tests shorten the expiry time).
ShortLockExpire == 1
\* StartSync/EndSync cycles of specification SpecCycles.
MaxCycles == 12
\* SyncRules calls that may be in progress at once, and made in all (Spec).
NumPasses == 2
MaxStarted == 2
\* viper "sync.interval" (1 minute by default), in ticks.
SyncInterval == 1
\* lockUpdaterInterval (20 seconds in the source), in ticks.
LockUpdaterInterval == 1
\* Last instant of the clock in Spec.
MaxEngineTime == 2
\* Syncs that may be started in all (Spec): SyncStart calls that acquire.
MaxAcquired == 2
\* Errors (filter, storage, Engine.Sync) that may occur in all (Spec).
MaxFailures == 1

(***************************************************************************)
(* Program constants.                                                      *)
(***************************************************************************)
\* "$slice": -10 of EndSync: the history keeps the latest 10 outcomes.
MaxSyncs == 10
\* The zero time.Time of a field that was never set.
ZeroTime == -1

RuleIDs == 1 .. NumRules
EngineNames == 1 .. NumEngines
Keys == RuleIDs \X EngineNames
Callers == 1 .. NumCallers

\* The errors the model tells apart.
Nil == "nil"
ErrSyncStorageLocked == "ErrSyncStorageLocked"

Max(a, b) == IF a > b THEN a ELSE b

(***************************************************************************)
(* The sync storage: one document per (ruleid, engine), unique index.      *)
(***************************************************************************)
\* ruleSyncInfo; `exists` is FALSE while the collection has no document for
\* the key.
NoDoc ==
    [exists |-> FALSE, SyncID |-> 0, StartTime |-> ZeroTime, EndTime |-> ZeroTime,
     PingTime |-> ZeroTime, Running |-> FALSE, Syncs |-> << >>]

\* ExpireTime with the two durations added up.
MutExpireTimeSum(after, lockExpire) ==
    after + lockExpire

\* expireTime of StartSync: lockExpireTime, or `after` when that is longer.
ExpireTime(after, lockExpire) ==
    IF after > lockExpire THEN after ELSE lockExpire

\* QueryOr with `after` in the branch of a running record too.
MutQueryOrAfter(doc, t, after, expire) ==
    \/ doc.PingTime < t - after /\ ~doc.Running
    \/ doc.PingTime < t - after /\ doc.Running

\* QueryOr with the expiry time in the branch of a record that is not running.
MutQueryOrExpire(doc, t, after, expire) ==
    \/ doc.PingTime < t - expire /\ ~doc.Running
    \/ doc.PingTime < t - expire /\ doc.Running

\* The $or of StartSync's query, left out when force is set.
QueryOr(doc, t, after, expire) ==
    \/ doc.PingTime < t - after /\ ~doc.Running
    \/ doc.PingTime < t - expire /\ doc.Running

\* Whether StartSync's query matches the key's document.
QueryMatches(doc, t, after, expire, force) ==
    /\ doc.exists
    /\ force \/ QueryOr(doc, t, after, expire)

\* StartSyncUpdate without "pingtime" in the $set of a matched document.
MutStartSyncUpdateNoPing(doc, t, id) ==
    IF doc.exists
    THEN [doc EXCEPT !.StartTime = t, !.Running = TRUE]
    ELSE [NoDoc EXCEPT !.exists = TRUE, !.SyncID = id, !.StartTime = t,
                       !.PingTime = t, !.Running = TRUE]

\* The $set (and, on insert, $setOnInsert) of StartSync.
StartSyncUpdate(doc, t, id) ==
    IF doc.exists
    THEN [doc EXCEPT !.StartTime = t, !.PingTime = t, !.Running = TRUE]
    ELSE [NoDoc EXCEPT !.exists = TRUE, !.SyncID = id, !.StartTime = t,
                       !.PingTime = t, !.Running = TRUE]

\* A hint that is always `after`.
MutNextHintAfter(doc, t, after) ==
    after

\* The retry hint of a denied StartSync: `after`, less the age of the ping of
\* a record that is not running.
NextHint(doc, t, after) ==
    IF ~doc.Running /\ doc.PingTime # ZeroTime
    THEN after - (t - doc.PingTime)
    ELSE after

\* StartSync as one findOneAndUpdate with upsert: the matched document is
\* updated; with no match the insert either creates the document or hits the
\* unique index (duplicate key), which is returned as ErrSyncStorageLocked.
\* The result holds the document as stored afterwards, the error, the hint
\* and the RuleSyncInfo handed to the caller.
StartSyncStorage(doc, t, lockExpire, after, force, id) ==
    LET expire == ExpireTime(after, lockExpire)
        upd == StartSyncUpdate(doc, t, id)
    IN  IF QueryMatches(doc, t, after, expire, force) \/ ~doc.exists
        THEN [doc |-> upd, err |-> Nil, next |-> after, ruleSync |-> upd]
        ELSE [doc |-> doc, err |-> ErrSyncStorageLocked,
              next |-> NextHint(doc, t, after), ruleSync |-> NoDoc]

\* LastN with "$slice": 10 in place of -10: the first n elements.
MutFirstN(s, n) ==
    IF Len(s) <= n THEN s ELSE SubSeq(s, 1, n)

\* The last n elements of s ("$slice": -n).
LastN(s, n) ==
    IF Len(s) <= n THEN s ELSE SubSeq(s, Len(s) - n + 1, Len(s))

\* An EndSync that records the outcome and leaves "running" as it is.
MutEndSyncStorageRunning(doc, t, syncData) ==
    IF doc.exists
    THEN [doc EXCEPT !.PingTime = t, !.EndTime = t,
                     !.Syncs = LastN(Append(@, syncData), MaxSyncs)]
    ELSE doc

\* EndSync: an update by (ruleid, engine) without upsert.
EndSyncStorage(doc, t, syncData) ==
    IF doc.exists
    THEN [doc EXCEPT !.Running = FALSE, !.PingTime = t, !.EndTime = t,
                     !.Syncs = LastN(Append(@, syncData), MaxSyncs)]
    ELSE doc

\* PingSyncs: sets pingtime of every document whose _id is in ruleSyncIDs.
MutPingSyncsStorageAll(docs, t, ruleSyncIDs) ==
    [k \in DOMAIN docs |->
        IF docs[k].exists THEN [docs[k] EXCEPT !.PingTime = t] ELSE docs[k]]

PingSyncsStorage(docs, t, ruleSyncIDs) ==
    [k \in DOMAIN docs |->
        IF docs[k].exists /\ docs[k].SyncID \in ruleSyncIDs
        THEN [docs[k] EXCEPT !.PingTime = t]
        ELSE docs[k]]

\* RuleSyncInfo.LatestSync: a one-element sequence, or << >> for nil.
LatestSync(rsi) ==
    IF Len(rsi.Syncs) = 0 THEN << >> ELSE << rsi.Syncs[Len(rsi.Syncs)] >>

(***************************************************************************)
(* State.                                                                  *)
(***************************************************************************)
VARIABLES
    now,            \* time.Now(), in ticks
    db,             \* collection acl_rule_sync: key -> document
    lockExpireTime, \* var lockExpireTime of the mongodb sync storage
    nextID,         \* the next _id newID() gives to an inserted document
    holders,        \* SpecStore: key -> callers holding a RuleSyncInfo of it
    ret,            \* SpecStore: what the latest StartSync call returned
    race,           \* SpecStore: key -> tally of the racing StartSync calls
    log,            \* SpecCycles: every outcome handed to EndSync, in order
    removed,        \* Spec: rule ID -> the stored rule's Removed flag
    pass,           \* Spec: the SyncRules calls in progress
    task,           \* Spec: the engineSync goroutine of each call and engine
    updater,        \* Spec: the lockUpdater loop (syncIDSet, start of its timer)
    failures,       \* Spec: ruleSyncFailuresTotal, by engine
    started,        \* Spec: number of SyncRules calls made so far
    loop,           \* SpecLoop: the RunPeriodicSync goroutine
    shutdown,       \* SpecLoop: the ShutdownPeriodicSync call
    opNow,          \* SpecOperator: time.Now(), in ticks of a fraction of a second
    opRule,         \* SpecOperator: the rule handed to ACLOperatorEngine.Sync
    target,         \* SpecOperator: the app or cron job resource of the cluster
    opCalls,        \* SpecOperator: the latest Sync calls, oldest first
    lu,             \* SpecUpdater: the lockUpdater, its loop and its users
    lc,             \* SpecLogic: one logicCache and the calls on it
    val,            \* SpecValidate: the rule handed to Save and the stored rules
    hk,             \* SpecHooks: the SyncRules calls and what each engine was called with
    cl,             \* SpecClusters: the clusters of the tsuru API and a PoolCluster call
    si              \* SpecService: the base rules of a service instance and the last call

storeVars == << holders, ret, race, log >>
engVars == << removed, pass, task, updater, failures, started >>
loopVars == << loop, shutdown >>
opVars == << opNow, opRule, target, opCalls >>
svcVars == << lu, lc, val, hk, cl, si >>
vars == << now, db, lockExpireTime, nextID, holders, ret, race, log,
           removed, pass, task, updater, failures, started,
           loop, shutdown, opNow, opRule, target, opCalls, lu, lc, val,
           hk, cl, si >>

NoRet == [op |-> "none"]
NoRace == [wins |-> 0, denied |-> 0, free |-> FALSE, t0 |-> ZeroTime]

\* types.RuleSyncData{}: the outcome the storage tests hand to EndSync.
EmptySyncData ==
    [StartTime |-> ZeroTime, EndTime |-> ZeroTime, Successful |-> FALSE,
     Removed |-> FALSE, Error |-> "", SyncResult |-> ""]

InitBase ==
    /\ now = 0
    /\ db = [k \in Keys |-> NoDoc]
    /\ lockExpireTime = LockExpireDefault
    /\ nextID = 1

InitStore ==
    /\ holders = [k \in Keys |-> 0]
    /\ ret = NoRet
    /\ race = [k \in Keys |-> NoRace]

InitCycles ==
    log = << >>

Passes == 1 .. NumPasses

NoPass == [active |-> FALSE, force |-> FALSE, rules |-> << >>]

\* The locals of one engineSync goroutine: where it stands (pc), the index i
\* of the rule it is at, the sync it holds (syncID, start, skip: the removal
\* was already synced, so Sync is not called) and the rules it has called
\* syncRule for.
IdleTask ==
    [pc |-> "idle", i |-> 0, skip |-> FALSE, syncID |-> 0, start |-> ZeroTime,
     tried |-> {}]

InitEngine ==
    /\ removed = [r \in RuleIDs |-> FALSE]
    /\ pass = [p \in Passes |-> NoPass]
    /\ task = [p \in Passes |-> [e \in EngineNames |-> IdleTask]]
    /\ updater = [syncIDSet |-> {}, timer |-> ZeroTime]
    /\ failures = [e \in EngineNames |-> 0]
    /\ started = 0

\* RunPeriodicSync has not been called, nor ShutdownPeriodicSync.
NoLoop == [pc |-> "off", timer |-> ZeroTime, stoppedAt |-> 0, last |-> "none"]

NoShutdown == [state |-> "none", calledIn |-> "none", err |-> "nil"]

InitLoopOff ==
    /\ loop = NoLoop
    /\ shutdown = NoShutdown

\* No Sync call of the operator engine has been made.
NoOpRule == [Source |-> "none", Created |-> 0, Provisioner |-> "none"]

\* The value of the annotation acl-api.tsuru.io/last-updated of a resource:
\* absent, the empty string, a text that is no timestamp, or a timestamp in
\* whole seconds.
NoAnnotation == [kind |-> "absent", sec |-> 0]

NoTarget == [exists |-> FALSE, annotation |-> NoAnnotation]

InitOperatorOff ==
    /\ opNow = 0
    /\ opRule = NoOpRule
    /\ target = NoTarget
    /\ opCalls = << >>

\* The service-level models are not in use.
NoUse == [pc |-> "off"]

InitServiceOff ==
    /\ lu = NoUse
    /\ lc = NoUse
    /\ val = NoUse
    /\ hk = NoUse
    /\ cl = NoUse
    /\ si = NoUse

Init ==
    /\ InitBase /\ InitStore /\ InitCycles /\ InitEngine /\ InitLoopOff
    /\ InitOperatorOff /\ InitServiceOff

(***************************************************************************)
(* SpecStore: callers using the sync storage directly, as the storage test *)
(* suite does, on the key (r1, e1).  A caller that acquired the key ends   *)
(* its sync at any later time, or never.                                   *)
(***************************************************************************)
StoreKeys == {<< 1, 1 >>}
\* The minimum re-sync intervals the callers pass (the tests pass -1 hour
\* and intervals below and above the lock expiry time).
StoreAfters == {-1, 1, 3}

\* A key is free for a non-forced caller passing `after` when it has no
\* record, when its record was released more than `after` ago, or when its
\* record is running and was last pinged more than the expiry time ago.
KeyFree(doc, t, after, lockExpire) ==
    \/ ~doc.exists
    \/ ~doc.Running /\ t - doc.PingTime > after
    \/ doc.Running /\ t - doc.PingTime > Max(lockExpire, after)

Sat(n) == IF n >= 2 THEN 2 ELSE n + 1

\* The tally of a race on a key: the non-forced StartSync calls made on it
\* within one lock expiry time of the first of them, with no EndSync, ping,
\* forced acquisition or change of the expiry time in between.
RaceAfter(r, doc, t, after, lockExpire, err) ==
    LET cur == IF r.t0 = ZeroTime \/ t - r.t0 > lockExpire
               THEN [NoRace EXCEPT !.t0 = t,
                                   !.free = KeyFree(doc, t, after, lockExpire)]
               ELSE r
    IN  IF err = Nil
        THEN [cur EXCEPT !.wins = Sat(@)]
        ELSE [cur EXCEPT !.denied = Sat(@)]

StoreStartSync(k, after, force) ==
    /\ Len(db[k].Syncs) < MaxStoreSyncs
    /\ LET r == StartSyncStorage(db[k], now, lockExpireTime, after, force, nextID)
       IN  /\ r.err = Nil => holders[k] < NumCallers
           /\ db' = [db EXCEPT ![k] = r.doc]
           /\ nextID' = IF db[k].exists THEN nextID ELSE nextID + 1
           /\ holders' = [holders EXCEPT ![k] = IF r.err = Nil THEN @ + 1 ELSE @]
           /\ ret' = [op |-> "StartSync", key |-> k, after |-> after,
                      force |-> force, pre |-> db[k], err |-> r.err,
                      next |-> r.next]
           /\ race' = [race EXCEPT ![k] =
                          IF force THEN NoRace
                          ELSE RaceAfter(@, db[k], now, after, lockExpireTime, r.err)]
    /\ UNCHANGED << loopVars, opVars, svcVars, now, lockExpireTime, log, engVars >>

\* Whether the latest call was a non-forced StartSync that acquired the key
\* from a record still marked running (its holder's lock had expired).
AfterReacquire(k) ==
    /\ ret.op = "StartSync" /\ ret.key = k
    /\ ~ret.force /\ ret.err = Nil
    /\ ret.pre.exists /\ ret.pre.Running

\* EndSync with the RuleSyncInfo of any caller that acquired the key and has
\* not ended: only RuleID and Engine of it are used.  `late` records an
\* EndSync that directly follows an acquisition from an expired holder.
StoreEndSync(k) ==
    /\ holders[k] > 0
    /\ db' = [db EXCEPT ![k] = EndSyncStorage(@, now, EmptySyncData)]
    /\ holders' = [holders EXCEPT ![k] = @ - 1]
    /\ ret' = IF AfterReacquire(k) THEN [op |-> "EndSync", key |-> k, late |-> TRUE]
              ELSE NoRet
    /\ race' = [race EXCEPT ![k] = NoRace]
    /\ UNCHANGED << loopVars, opVars, svcVars, now, lockExpireTime, nextID, log, engVars >>

StorePingSyncs(ids) ==
    /\ ids # {}
    /\ db' = PingSyncsStorage(db, now, ids)
    /\ ret' = NoRet
    /\ race' = [k \in Keys |-> IF db[k].SyncID \in ids THEN NoRace ELSE race[k]]
    /\ UNCHANGED << loopVars, opVars, svcVars, now, lockExpireTime, nextID, holders, log, engVars >>

\* SetLockExpireTime(timeout).
StoreSetLockExpireTime(timeout) ==
    /\ timeout # lockExpireTime
    /\ lockExpireTime' = timeout
    /\ ret' = NoRet
    /\ race' = [k \in Keys |-> NoRace]
    /\ UNCHANGED << loopVars, opVars, svcVars, now, db, nextID, holders, log, engVars >>

StoreTick ==
    /\ now < MaxTime
    /\ now' = now + 1
    /\ ret' = NoRet
    /\ UNCHANGED << loopVars, opVars, svcVars, db, lockExpireTime, nextID, holders,
                    race, log, engVars >>

NextStore ==
    \/ \E k \in StoreKeys, after \in StoreAfters, force \in BOOLEAN :
          StoreStartSync(k, after, force)
    \/ \E k \in StoreKeys : StoreEndSync(k)
    \/ \E ids \in SUBSET (1 .. nextID - 1) : StorePingSyncs(ids)
    \/ \E timeout \in {ShortLockExpire, LockExpireDefault} :
          StoreSetLockExpireTime(timeout)
    \/ StoreTick

SpecStore == Init /\ [][NextStore]_vars

(***************************************************************************)
(* SpecKeys: callers using the sync storage on the two keys (r1, e1) and   *)
(* (r1, e2) of one rule, not forced, as TestStartEndSync does.             *)
(***************************************************************************)
KeysOfRule == {<< 1, 1 >>, << 1, 2 >>}
\* The test passes -1 hour; the other interval lets a released key deny.
KeysAfters == {-1, 1}
\* Time runs for less than the lock expiry time: no lock goes stale.
KeysMaxTime == 2

NextKeys ==
    \/ \E k \in KeysOfRule, after \in KeysAfters : StoreStartSync(k, after, FALSE)
    \/ \E k \in KeysOfRule : StoreEndSync(k)
    \/ \E ids \in SUBSET (1 .. nextID - 1) : StorePingSyncs(ids)
    \/ now < KeysMaxTime /\ StoreTick

SpecKeys == Init /\ [][NextKeys]_vars

(***************************************************************************)
(* SpecCycles: one caller running StartSync/EndSync cycles on the key      *)
(* (r1, e1) one after the other, with after = -1 hour as the storage test  *)
(* does, handing EndSync an outcome of its choice.                         *)
(***************************************************************************)
CycleKey == << 1, 1 >>
CycleAfter == -1
CycleOutcomes ==
    {[EmptySyncData EXCEPT !.Successful = s, !.SyncResult = IF s THEN "something" ELSE ""] :
        s \in BOOLEAN}

CycleStartSync(force) ==
    /\ holders[CycleKey] = 0
    /\ Len(log) < MaxCycles
    /\ LET r == StartSyncStorage(db[CycleKey], now, lockExpireTime, CycleAfter,
                                 force, nextID)
       IN  /\ r.err = Nil
           /\ db' = [db EXCEPT ![CycleKey] = r.doc]
           /\ nextID' = IF db[CycleKey].exists THEN nextID ELSE nextID + 1
    /\ holders' = [holders EXCEPT ![CycleKey] = 1]
    /\ UNCHANGED << loopVars, opVars, svcVars, now, lockExpireTime, ret, race, log, engVars >>

CycleEndSync(syncData) ==
    /\ holders[CycleKey] = 1
    /\ db' = [db EXCEPT ![CycleKey] = EndSyncStorage(@, now, syncData)]
    /\ holders' = [holders EXCEPT ![CycleKey] = 0]
    /\ log' = Append(log, syncData)
    /\ UNCHANGED << loopVars, opVars, svcVars, now, lockExpireTime, nextID, ret, race, engVars >>

NextCycles ==
    \/ \E force \in BOOLEAN : CycleStartSync(force)
    \/ \E syncData \in CycleOutcomes : CycleEndSync(syncData)

SpecCycles == Init /\ [][NextCycles]_vars

(***************************************************************************)
(* Spec: the sync coordinator.  SyncRules calls (the periodic loop with    *)
(* force = FALSE, the API handlers with either value) run concurrently in  *)
(* one process; each starts one engineSync goroutine per enabled engine,   *)
(* which calls syncRule for the rules of the batch in order.  The rule     *)
(* service's SyncStart and SyncEnd hand the sync ID to the lockUpdater     *)
(* loop, which pings the tracked IDs on every change of its set and every  *)
(* lockUpdaterInterval.  A StartSync storage call may fail; EndSync and    *)
(* PingSyncs are taken to succeed.                                         *)
(***************************************************************************)
\* Engines that implement EngineWithFilter.
FilterEngines == {e \in EngineNames : e % 2 = 0}

FilterError == "filter error"
StorageError == "storage error"
SyncError == "sync error"
NilObj == ""

\* What Engine.Sync may return: (obj, err).
SyncResults ==
    {[obj |-> "triggered", err |-> Nil], [obj |-> NilObj, err |-> Nil],
     [obj |-> NilObj, err |-> SyncError]}

\* json.Marshal of the object Sync returned, kept when the object is not nil.
MarshalSyncResult(obj) ==
    IF obj = NilObj THEN "" ELSE "\"" \o obj \o "\""

\* A FindAll that returns the first stored rule only.
MutLoopBatchFirst == << 1 >>

\* The periodic loop hands SyncRules every stored rule, in the order of the
\* IDs; an API handler hands it the rules of its request, here rule 1.
LoopBatch == [i \in 1 .. NumRules |-> i]

OnDemandBatches == {<< 1 >>}

\* The rules a DELETE request is made for.
Removable == {1}

RuleValue(id) == [RuleID |-> id, Removed |-> removed[id]]

\* ruleStorage.Delete: the rule is marked Removed.
DeleteRule(r) ==
    /\ ~removed[r]
    /\ removed' = [removed EXCEPT ![r] = TRUE]
    /\ UNCHANGED << loopVars, opVars, svcVars, now, db, lockExpireTime, nextID, storeVars,
                    pass, task, updater, failures, started >>

\* SyncRules(rules, force): one goroutine per enabled engine.
SyncRulesCall(p, ids, force) ==
    /\ ~pass[p].active
    /\ started < MaxStarted
    /\ started' = started + 1
    /\ pass' = [pass EXCEPT ![p] =
                   [active |-> TRUE, force |-> force,
                    rules |-> [i \in DOMAIN ids |-> RuleValue(ids[i])]]]
    /\ task' = [task EXCEPT ![p] =
                   [e \in EngineNames |-> [IdleTask EXCEPT !.pc = "rule", !.i = 1]]]
    /\ UNCHANGED << opVars, svcVars, now, db, lockExpireTime, nextID, storeVars,
                    removed, updater, failures >>

SyncRules(p, ids, force) ==
    SyncRulesCall(p, ids, force) /\ UNCHANGED loopVars

\* lockUpdater.run on `id := <-l.addSyncID`: the loop adds the ID and starts
\* a new timer.
UpdaterEnqueue(u, id, t) ==
    [syncIDSet |-> u.syncIDSet \cup {id}, timer |-> t]

\* A loop that leaves the ID in the set.
MutUpdaterDequeueKeep(u, id, t) ==
    u

\* lockUpdater.run on `id := <-l.removeSyncID`.
UpdaterDequeue(u, id, t) ==
    LET set == u.syncIDSet \ {id}
    IN  [syncIDSet |-> set, timer |-> IF set = {} THEN ZeroTime ELSE t]

\* The end of an iteration of the loop: PingSyncs of the tracked IDs, if any.
UpdaterPing(docs, u, t) ==
    IF u.syncIDSet = {} THEN docs ELSE PingSyncsStorage(docs, t, u.syncIDSet)

\* syncRule's test of the latest outcome: the removal is already synced.
RemovalSynced(r, ruleSync) ==
    LET latestSync == LatestSync(ruleSync)
    IN  /\ latestSync # << >>
        /\ r.Removed /\ latestSync[1].Removed /\ latestSync[1].Successful

\* What the first part of syncRule may meet: the filter's answer (engines
\* with a filter), then the StartSync call or its storage failure.
StartOutcomes(e) ==
    {"start", "storage-error"}
        \cup (IF e \in FilterEngines THEN {"not-allowed", "filter-error"} ELSE {})

\* A loop that leaves the batch at the first error.
MutNextIndexStop(i, n, err) ==
    IF err # Nil THEN n + 1 ELSE i + 1

\* A loop that steps over every other rule.
MutNextIndexSkip(i, n, err) ==
    i + 2

\* engineSync's loop: the next rule, whatever syncRule returned.
NextIndex(i, n, err) ==
    i + 1

\* An engineSync that counts nothing.
MutCountFailureNone(f, e, err) ==
    f

\* engineSync after syncRule returned err: the failure counter.
CountFailure(f, e, err) ==
    IF err # Nil THEN [f EXCEPT ![e] = @ + 1] ELSE f

\* A syncRule that returns every error of SyncStart.
MutStartErrorLocked(err) ==
    err

\* syncRule's return value when SyncStart returned err.
StartError(err) ==
    IF err = ErrSyncStorageLocked THEN Nil ELSE err

\* The task after a syncRule call that returned without acquiring the lock.
Returned(t, n, r, err) ==
    [t EXCEPT !.pc = "rule", !.i = NextIndex(t.i, n, err),
              !.tried = @ \cup {r.RuleID}]

\* The latest return of syncRule to engineSync, as engineSync sees it (err)
\* and the way it was reached (kind).
SyncRuleRet(kind, err) ==
    [op |-> "syncRule", kind |-> kind, err |-> err]

\* The document ID the storage gives the record of a key on its insert.
NewSyncID(k) == (k[1] - 1) * NumEngines + k[2]

\* The errors engineSync has counted so far.
RECURSIVE SumFailures(_, _)
SumFailures(f, es) ==
    IF es = {} THEN 0
    ELSE LET e == CHOOSE x \in es : TRUE
         IN  f[e] + SumFailures(f, es \ {e})

RECURSIVE SumLen(_, _)
SumLen(docs, ks) ==
    IF ks = {} THEN 0
    ELSE LET k == CHOOSE x \in ks : TRUE
         IN  Len(docs[k].Syncs) + SumLen(docs, ks \ {k})

\* The syncs started so far: those recorded and those in flight.
Acquired ==
    SumLen(db, Keys)
        + Cardinality({pe \in Passes \X EngineNames : task[pe[1]][pe[2]].pc = "sync"})

\* syncRule up to the call of Engine.Sync: the filter, SyncStart (StartSync,
\* then the sync ID handed to the lockUpdater, which pings), the test of the
\* latest outcome; and, when syncRule returns here, engineSync's accounting.
SyncRuleStart(p, e) ==
    LET t == task[p][e]
        n == Len(pass[p].rules)
    IN  /\ t.pc = "rule"
        /\ t.i <= n
        /\ LET r == pass[p].rules[t.i]
               k == << r.RuleID, e >>
               s == StartSyncStorage(db[k], now, lockExpireTime, SyncInterval,
                                     pass[p].force, NewSyncID(k))
               u == UpdaterEnqueue(updater, s.ruleSync.SyncID, now)
           IN  \E o \in StartOutcomes(e) :
                 IF o = "start" /\ s.err = Nil
                 THEN /\ Acquired < MaxAcquired
                      /\ db' = UpdaterPing([db EXCEPT ![k] = s.doc], u, now)
                      /\ updater' = u
                      /\ ret' = [op |-> "SyncStart", kind |-> "acquired", err |-> Nil]
                      /\ task' = [task EXCEPT ![p][e] =
                                    [t EXCEPT !.pc = "sync",
                                              !.skip = RemovalSynced(r, s.ruleSync),
                                              !.syncID = s.ruleSync.SyncID,
                                              !.start = now,
                                              !.tried = @ \cup {r.RuleID}]]
                      /\ UNCHANGED failures
                 ELSE LET err == CASE o = "filter-error" -> FilterError
                                   [] o = "not-allowed" -> Nil
                                   [] o = "storage-error" -> StartError(StorageError)
                                   [] OTHER -> StartError(s.err)
                          kind == IF o = "start" THEN "locked" ELSE o
                      IN  /\ err # Nil => SumFailures(failures, EngineNames) < MaxFailures
                          /\ task' = [task EXCEPT ![p][e] = Returned(t, n, r, err)]
                          /\ failures' = CountFailure(failures, e, err)
                          /\ ret' = SyncRuleRet(kind, err)
                          /\ UNCHANGED << db, updater >>
        /\ UNCHANGED << loopVars, opVars, svcVars, now, lockExpireTime, nextID, holders, race, log,
                        removed, pass, started >>

\* A deferred function that reports every sync as successful.
MutSyncDataSuccess(r, start, t, res) ==
    [StartTime |-> start, EndTime |-> t, Successful |-> TRUE,
     Removed |-> r.Removed, Error |-> "",
     SyncResult |-> MarshalSyncResult(res.obj)]

\* The RuleSyncData syncRule's deferred function hands to SyncEnd.
SyncData(r, start, t, res) ==
    [StartTime |-> start, EndTime |-> t, Successful |-> res.err = Nil,
     Removed |-> r.Removed,
     Error |-> IF res.err # Nil THEN res.err ELSE "",
     SyncResult |-> MarshalSyncResult(res.obj)]

\* The rest of syncRule: Engine.Sync returns (unless the removal was already
\* synced), the deferred SyncEnd (the sync ID taken from the lockUpdater,
\* which pings the IDs left, then EndSync), and engineSync's accounting.
SyncRuleEnd(p, e) ==
    LET t == task[p][e]
        n == Len(pass[p].rules)
    IN  /\ t.pc = "sync"
        /\ LET r == pass[p].rules[t.i]
               k == << r.RuleID, e >>
               u == UpdaterDequeue(updater, t.syncID, now)
           IN  \E res \in (IF t.skip THEN {[obj |-> NilObj, err |-> Nil]} ELSE SyncResults) :
                 /\ res.err # Nil => SumFailures(failures, EngineNames) < MaxFailures
                 /\ updater' = u
                 /\ db' = [UpdaterPing(db, u, now) EXCEPT ![k] =
                              EndSyncStorage(@, now, SyncData(r, t.start, now, res))]
                 /\ failures' = CountFailure(failures, e, res.err)
                 /\ task' = [task EXCEPT ![p][e] =
                               [t EXCEPT !.pc = "rule",
                                         !.i = NextIndex(t.i, n, res.err),
                                         !.skip = FALSE, !.syncID = 0,
                                         !.start = ZeroTime]]
                 /\ ret' = SyncRuleRet(IF t.skip THEN "skipped"
                                       ELSE IF res.err = Nil THEN "synced"
                                       ELSE "failed",
                                       res.err)
        /\ UNCHANGED << loopVars, opVars, svcVars, now, lockExpireTime, nextID, holders, race, log,
                        removed, pass, started >>

\* engineSync returns after the last rule of the batch.
EngineSyncDone(p, e) ==
    /\ task[p][e].pc = "rule"
    /\ task[p][e].i > Len(pass[p].rules)
    /\ task' = [task EXCEPT ![p][e].pc = "done"]
    /\ UNCHANGED << loopVars, opVars, svcVars, now, db, lockExpireTime, nextID, storeVars,
                    removed, pass, updater, failures, started >>

\* SyncRules returns: wg.Wait() is over.
\* A wait that is over when the first goroutine is done.
MutWaitDoneAny(p) ==
    \E e \in EngineNames : task[p][e].pc = "done"

\* wg.Wait() is over: every goroutine of the call has returned.
WaitDone(p) ==
    \A e \in EngineNames : task[p][e].pc = "done"

SyncRulesReturned(p) ==
    /\ pass[p].active
    /\ WaitDone(p)
    /\ pass' = [pass EXCEPT ![p] = NoPass]
    /\ task' = [task EXCEPT ![p] = [e \in EngineNames |-> IdleTask]]
    /\ UNCHANGED << opVars, svcVars, now, db, lockExpireTime, nextID, storeVars,
                    removed, updater, failures, started >>

SyncRulesReturn(p) ==
    SyncRulesReturned(p) /\ UNCHANGED loopVars

\* lockUpdater.run on `<-time.After(lockUpdaterInterval)`.
UpdaterTimeout ==
    /\ updater.syncIDSet # {}
    /\ now >= updater.timer + LockUpdaterInterval
    /\ updater' = [updater EXCEPT !.timer = now]
    /\ db' = UpdaterPing(db, updater, now)
    /\ UNCHANGED << loopVars, opVars, svcVars, now, lockExpireTime, nextID, storeVars,
                    removed, pass, task, failures, started >>

\* Time passes, but not beyond the lockUpdater's timer with IDs to ping.  The
\* storage calls and the bookkeeping between them take no time: time passes
\* while the goroutines are inside Engine.Sync, waiting or not started.
Tick ==
    /\ now < MaxEngineTime
    /\ \A p \in Passes, e \in EngineNames : task[p][e].pc # "rule"
    /\ updater.syncIDSet = {} \/ now < updater.timer + LockUpdaterInterval
    /\ now' = now + 1
    /\ UNCHANGED << loopVars, opVars, svcVars, db, lockExpireTime, nextID, storeVars, engVars >>

Next ==
    \/ \E r \in Removable : DeleteRule(r)
    \/ SyncRules(1, LoopBatch, FALSE)
    \/ \E p \in Passes \ {1}, ids \in OnDemandBatches, force \in BOOLEAN :
          SyncRules(p, ids, force)
    \/ \E p \in Passes, e \in EngineNames : SyncRuleStart(p, e)
    \/ \E p \in Passes, e \in EngineNames : SyncRuleEnd(p, e)
    \/ \E p \in Passes, e \in EngineNames : EngineSyncDone(p, e)
    \/ \E p \in Passes : SyncRulesReturn(p)
    \/ UpdaterTimeout
    \/ Tick

Spec == Init /\ [][Next]_vars


(***************************************************************************)
(* SpecLoop: RunPeriodicSync and ShutdownPeriodicSync.  The loop fetches   *)
(* the stored rules and calls SyncRules(rules, false); when the call has   *)
(* returned it waits in a select for time.After(sync.interval) or for the  *)
(* quit signal.  ShutdownPeriodicSync offers the signal on the unbuffered  *)
(* quitCh until the loop takes it or the caller's context ends.            *)
(***************************************************************************)
LoopPassID == 1

CtxError == "context deadline exceeded"

\* A quit channel that takes the signal while a pass is in flight.
MutQuitDuringPass ==
    loop.pc \in {"wait", "pass"}

\* The loop is in its select: it can receive from quitCh.
QuitReceivable ==
    loop.pc = "wait"

\* A ShutdownPeriodicSync that returns nil on both cases of its select.
MutShutdownResultNil(delivered) ==
    Nil

\* ShutdownPeriodicSync's return value: nil when quitCh took the signal,
\* ctx.Err() when ctx.Done() came first.
ShutdownResult(delivered) ==
    IF delivered THEN Nil ELSE CtxError

\* What a SyncRules call leaves behind when it returns: whether every
\* goroutine had called syncRule for every rule of the batch.
PassSummary(p) ==
    IF \A e \in EngineNames :
         task[p][e].tried = {pass[p].rules[j].RuleID : j \in DOMAIN pass[p].rules}
    THEN "complete" ELSE "partial"

\* RunPeriodicSync is called: with sync.disabled it returns at once and no
\* loop ever runs, otherwise it enters the loop.
RunPeriodicSync ==
    /\ loop.pc = "off"
    /\ \E disabled \in BOOLEAN :
         loop' = [loop EXCEPT !.pc = IF disabled THEN "disabled" ELSE "iter"]
    /\ UNCHANGED << now, db, lockExpireTime, nextID, storeVars, engVars,
                    shutdown, opVars, svcVars >>

\* syncAllRules: FindAll, then SyncRules(rules, false); an error of FindAll
\* is logged and the loop goes to its select.
LoopPass ==
    /\ loop.pc = "iter"
    /\ \E findAllOk \in BOOLEAN :
         IF findAllOk
         THEN /\ SyncRulesCall(LoopPassID, LoopBatch, FALSE)
              /\ loop' = [loop EXCEPT !.pc = "pass"]
         ELSE /\ loop' = [loop EXCEPT !.pc = "wait", !.timer = now]
              /\ UNCHANGED << now, db, lockExpireTime, nextID, storeVars, engVars,
                              opVars, svcVars >>
    /\ UNCHANGED shutdown

\* SyncRules has returned: the loop enters its select.
LoopPassDone ==
    /\ loop.pc = "pass"
    /\ SyncRulesReturned(LoopPassID)
    /\ loop' = [loop EXCEPT !.pc = "wait", !.timer = now,
                            !.last = PassSummary(LoopPassID)]
    /\ UNCHANGED shutdown

\* case <-time.After(syncInterval): the next iteration.
LoopTimeout ==
    /\ loop.pc = "wait"
    /\ now >= loop.timer + SyncInterval
    /\ loop' = [loop EXCEPT !.pc = "iter", !.timer = ZeroTime]
    /\ UNCHANGED << now, db, lockExpireTime, nextID, storeVars, engVars,
                    shutdown, opVars, svcVars >>

\* ShutdownPeriodicSync(ctx) is called and blocks in its select.
ShutdownCall ==
    /\ shutdown.state = "none"
    /\ shutdown' = [shutdown EXCEPT !.state = "calling", !.calledIn = loop.pc]
    /\ UNCHANGED << now, db, lockExpireTime, nextID, storeVars, engVars,
                    loop, opVars, svcVars >>

\* The rendezvous on quitCh: the loop's `case <-quitCh` returns from
\* RunPeriodicSync, ShutdownPeriodicSync's `case quitCh <- struct{}{}`
\* returns nil.
LoopQuit ==
    /\ shutdown.state = "calling"
    /\ QuitReceivable
    /\ loop' = [loop EXCEPT !.pc = "stopped", !.stoppedAt = started]
    /\ shutdown' = [shutdown EXCEPT !.state = "returned", !.err = ShutdownResult(TRUE)]
    /\ UNCHANGED << now, db, lockExpireTime, nextID, storeVars, engVars, opVars, svcVars >>

\* case <-ctx.Done(): the caller's context ended first.
ShutdownCtxDone ==
    /\ shutdown.state = "calling"
    /\ shutdown' = [shutdown EXCEPT !.state = "returned", !.err = ShutdownResult(FALSE)]
    /\ UNCHANGED << now, db, lockExpireTime, nextID, storeVars, engVars,
                    loop, opVars, svcVars >>

NextLoop ==
    \/ RunPeriodicSync
    \/ LoopPass
    \/ LoopPassDone
    \/ LoopTimeout
    \/ ShutdownCall
    \/ LoopQuit
    \/ ShutdownCtxDone
    \/ \E r \in Removable : DeleteRule(r)
    \/ \E e \in EngineNames : SyncRuleStart(LoopPassID, e)
    \/ \E e \in EngineNames : SyncRuleEnd(LoopPassID, e)
    \/ \E e \in EngineNames : EngineSyncDone(LoopPassID, e)
    \/ UpdaterTimeout
    \/ Tick

SpecLoop == Init /\ [][NextLoop]_vars

(***************************************************************************)
(* SpecOperator: the acl-operator engine's Sync on one rule and the        *)
(* resource (App or CronJob) of its source.  Time is counted in ticks of a *)
(* fraction of a second, so that a time.Time and its RFC3339 text differ.  *)
(* The rule, its pool's provisioner and the resource's state at the start  *)
(* are drawn in Init; Sync is called at any time with any outcome of the   *)
(* tsuru API and the Kubernetes API.                                       *)
(***************************************************************************)
\* Ticks of the clock per second, and seconds per minute (scaled down).
TicksPerSecond == 3
SecondsPerMinute == 2
\* Minutes of clock time explored after the start.
OpMinutes == 2

Minute == TicksPerSecond * SecondsPerMinute
StartOpNow == 2 * Minute
MaxOpTime == StartOpNow + OpMinutes * Minute

Triggered == "triggered acl-operator"
TriggeredLastMinute == "triggered acl-operator in the last minute"
\* The nil interface{} and the empty string Sync returns.
NoResult == "<nil>"
EmptyResult == ""

PoolError == "pool error"
ClusterError == "cluster error"
GetError == "get error"
PatchError == "patch error"
ParseError == "parsing time: cannot parse"

ResolverOutcomes == {"ok", "poolError", "clusterError"}

\* time.Time.Format(time.RFC3339): the time in whole seconds.
FormatRFC3339(t) == [kind |-> "time", sec |-> t \div TicksPerSecond]

\* time.Parse(time.RFC3339, str).
ParseRFC3339(a) ==
    IF a.kind = "time"
    THEN [err |-> Nil, t |-> a.sec * TicksPerSecond]
    ELSE [err |-> ParseError, t |-> ZeroTime]

\* lastUpdatedStr == "": a missing key of the map reads as the empty string.
LastUpdatedEmpty(a) == a.kind \in {"absent", "empty"}

\* A cooldown that has ended when the minute is reached.
MutNeedsUpdateAtMinute(created, lastUpdated, t) ==
    \/ created + Minute > lastUpdated
    \/ t >= lastUpdated + Minute

\* An update on every call.
MutNeedsUpdateAlways(created, lastUpdated, t) ==
    TRUE

\* No look at the rule's Created.
MutNeedsUpdateNoGrace(created, lastUpdated, t) ==
    t > lastUpdated + Minute

\* The two tests on a parsed annotation: the rule was created less than a
\* minute before the stored time, or now is more than a minute after it.
NeedsUpdate(created, lastUpdated, t) ==
    \/ created + Minute > lastUpdated
    \/ t > lastUpdated + Minute

\* A resolver that looks up the cluster of every pool.
MutKubernetesRestConfigAny(provisioner, outcome) ==
    IF outcome = "poolError"
    THEN [handle |-> FALSE, err |-> PoolError, lookup |-> FALSE]
    ELSE IF outcome = "clusterError"
    THEN [handle |-> FALSE, err |-> ClusterError, lookup |-> TRUE]
    ELSE [handle |-> TRUE, err |-> Nil, lookup |-> TRUE]

\* RuleLogic.KubernetesRestConfig: the pool of the source, then for a
\* kubernetes pool the cluster of the pool.
KubernetesRestConfig(provisioner, outcome) ==
    IF outcome = "poolError"
    THEN [handle |-> FALSE, err |-> PoolError, lookup |-> FALSE]
    ELSE IF provisioner # "kubernetes"
    THEN [handle |-> FALSE, err |-> Nil, lookup |-> FALSE]
    ELSE IF outcome = "clusterError"
    THEN [handle |-> FALSE, err |-> ClusterError, lookup |-> TRUE]
    ELSE [handle |-> TRUE, err |-> Nil, lookup |-> TRUE]

\* What a call returns and did: the result, the error, whether the cluster
\* was looked up, whether the resource was read and patched, and the
\* resource afterwards.
OpReturn(res, err, lookup, get, patch, tgt) ==
    [res |-> res, err |-> err, lookup |-> lookup, get |-> get, patch |-> patch,
     target |-> tgt]

\* logicCache.logicFromRuleType: the logic object of a source; only an app
\* source has one, any other source gets the nil RuleLogic.
NoLogic == "<nil>"

LogicFromRuleType(source) ==
    IF source = "app" THEN "tsuruAppRuleLogic" ELSE NoLogic

\* SyncApp and SyncJob (the same steps on an App and on a CronJob) at time t,
\* with the logic object LogicFromRule returns for the rule's source.
SyncApp(r, tgt, t, resolver, getOk, patchOk) ==
    LET cfg == KubernetesRestConfig(r.Provisioner, resolver)
        parsed == ParseRFC3339(tgt.annotation)
        written == [tgt EXCEPT !.annotation = FormatRFC3339(t)]
    IN  IF LogicFromRuleType(r.Source) = NoLogic
        THEN OpReturn(NoResult, Nil, FALSE, FALSE, FALSE, tgt)
        ELSE IF cfg.err # Nil
        THEN OpReturn(NoResult, cfg.err, cfg.lookup, FALSE, FALSE, tgt)
        ELSE IF ~cfg.handle
        THEN OpReturn(NoResult, Nil, cfg.lookup, FALSE, FALSE, tgt)
        ELSE IF ~getOk
        THEN OpReturn(EmptyResult, GetError, cfg.lookup, TRUE, FALSE, tgt)
        ELSE IF ~tgt.exists
        THEN OpReturn(EmptyResult, Nil, cfg.lookup, TRUE, FALSE, tgt)
        ELSE IF ~LastUpdatedEmpty(tgt.annotation) /\ parsed.err # Nil
        THEN OpReturn(EmptyResult, parsed.err, cfg.lookup, TRUE, FALSE, tgt)
        ELSE IF \/ LastUpdatedEmpty(tgt.annotation)
                \/ NeedsUpdate(r.Created, parsed.t, t)
        THEN IF patchOk
             THEN OpReturn(Triggered, Nil, cfg.lookup, TRUE, TRUE, written)
             ELSE OpReturn(EmptyResult, PatchError, cfg.lookup, TRUE, TRUE, tgt)
        ELSE OpReturn(TriggeredLastMinute, Nil, cfg.lookup, TRUE, FALSE, tgt)

\* ACLOperatorEngine.Sync: by the kind of the rule's source.
Sync(r, tgt, t, resolver, getOk, patchOk) ==
    IF r.Source \in {"app", "job"}
    THEN SyncApp(r, tgt, t, resolver, getOk, patchOk)
    ELSE OpReturn(NoResult, Nil, FALSE, FALSE, FALSE, tgt)

\* The latest two entries of a sequence.
LastTwo(s) == IF Len(s) > 2 THEN SubSeq(s, Len(s) - 1, Len(s)) ELSE s

OpRules ==
    [Source : {"app", "job", "none"},
     Created : {0, StartOpNow - 2, StartOpNow - 1, StartOpNow},
     Provisioner : {"kubernetes", "docker"}]

OpAnnotations ==
    {NoAnnotation, [kind |-> "empty", sec |-> 0], [kind |-> "bad", sec |-> 0],
     FormatRFC3339(Minute), FormatRFC3339(StartOpNow)}

InitOperator ==
    /\ opNow = StartOpNow
    /\ opRule \in OpRules
    /\ \E a \in OpAnnotations : target = [exists |-> TRUE, annotation |-> a]
       \/ target = NoTarget
    /\ opCalls = << >>

InitOp ==
    /\ InitBase /\ InitStore /\ InitCycles /\ InitEngine /\ InitLoopOff
    /\ InitOperator /\ InitServiceOff

\* One call of Sync on the rule.
OperatorSync ==
    /\ \E resolver \in ResolverOutcomes, getOk \in BOOLEAN, patchOk \in BOOLEAN :
         LET out == Sync(opRule, target, opNow, resolver, getOk, patchOk)
         IN  /\ target' = out.target
             /\ opCalls' = LastTwo(Append(opCalls,
                    [at |-> opNow, pre |-> target.annotation, res |-> out.res,
                     err |-> out.err, lookup |-> out.lookup, get |-> out.get,
                     patch |-> out.patch]))
    /\ UNCHANGED << opNow, opRule, now, db, lockExpireTime, nextID, storeVars,
                    engVars, loopVars, svcVars >>

OperatorTick ==
    /\ opNow < MaxOpTime
    /\ opNow' = opNow + 1
    /\ UNCHANGED << opRule, target, opCalls, now, db, lockExpireTime, nextID,
                    storeVars, engVars, loopVars, svcVars >>

NextOperator ==
    \/ OperatorSync
    \/ OperatorTick

SpecOperator == InitOp /\ [][NextOperator]_vars

(***************************************************************************)
(* SpecUpdater: the lockUpdater of the rule service.  Its loop goroutine   *)
(* owns syncIDSet and takes one event per iteration from the unbuffered    *)
(* channels addSyncID, removeSyncID and stopCh or from its timer, then     *)
(* pings the tracked IDs.  Callers run SyncStart (StartSync, then enqueue) *)
(* and SyncEnd (dequeue, then EndSync) on two keys, forced or not; a       *)
(* further goroutine calls stop() and run() as the service tests do.  A    *)
(* send on a channel and the loop's receive are one step; a sender that    *)
(* finds no receiver blocks on the channel it read from the lockUpdater.   *)
(* GetSyncStorage and PingSyncs may fail in the loop.                      *)
(***************************************************************************)
\* The number of stop()/run() pairs, and of syncs a caller makes.
MaxRestarts == 1
MaxLocks == 2

UpdKeys == {<< 1, 1 >>, << 2, 1 >>}

\* The channel of a caller that is not blocked in a send.  Channels are told
\* apart by the number of run() calls made when they were created.
NoChan == -1

IdleCaller == [pc |-> "idle", key |-> << 1, 1 >>, id |-> 0, done |-> 0, ch |-> NoChan]

\* init(): updater.run() has been called; the loop waits in its select with
\* an empty set.
InitUpd ==
    /\ InitBase /\ InitStore /\ InitCycles /\ InitEngine /\ InitLoopOff
    /\ InitOperatorOff
    /\ lu = [pc |-> "select",
             u |-> [syncIDSet |-> {}, timer |-> ZeroTime],
             stop |-> "idle", restarts |-> 0,
             touched |-> FALSE, fresh |-> TRUE, shared |-> FALSE,
             last |-> "none",
             callers |-> [c \in Callers |-> IdleCaller]]
    /\ lc = NoUse /\ val = NoUse /\ hk = NoUse /\ cl = NoUse /\ si = NoUse

\* A loop whose stop case only leaves the select (break), not the loop.
MutLoopOnStopBreak(pc) == "select"

\* The loop on `case <-l.stopCh`: return.
LoopOnStop(pc) == "exited"

\* The loop after an event: `if len(l.syncIDSet) == 0 { continue }`, else on
\* to PingSyncs.
LoopAfterEvent(u) == IF u.syncIDSet = {} THEN "select" ELSE "ping"

\* What the loop did is recorded: whether it acted after stop() returned,
\* and that the set is no longer the one run() made.  `last` is the outcome
\* of the ping that ended the latest iteration, if it has pinged.
LoopActed(l) ==
    [l EXCEPT !.touched = @ \/ l.stop = "stopped", !.fresh = FALSE, !.last = "none"]

\* What GetSyncStorage and PingSyncs may return to the loop.
PingOutcomes == {"ok", "pingError", "getError"}

\* A loop that goes on to the next iteration when GetSyncStorage fails.
MutLoopAfterPingContinue(outcome) == "select"

\* The loop after `stor, err := storage.GetSyncStorage()` and
\* `err = stor.PingSyncs(syncs)`: both errors are logged and nothing else is
\* done about them, so after a failed GetSyncStorage stor is the nil
\* interface and the call stor.PingSyncs panics in the loop's goroutine,
\* which ends the process.
LoopAfterPing(outcome) == IF outcome = "getError" THEN "panic" ELSE "select"

\* Whether a send on the channel ch finds the loop receiving from it.
Receiving(l, ch) == l.pc = "select" /\ ch \in {NoChan, l.restarts}

UpdUnchanged ==
    UNCHANGED << now, lockExpireTime, storeVars, engVars, loopVars, opVars, lc, val,
                 hk, cl, si >>

\* ruleServiceImpl.SyncStart up to the return of StartSync; a denied call
\* returns the error and changes nothing.
UpdSyncStart(c, k, force) ==
    /\ lu.pc # "panic"
    /\ lu.callers[c].pc = "idle"
    /\ lu.callers[c].done < MaxLocks
    /\ LET r == StartSyncStorage(db[k], now, lockExpireTime, 0, force, nextID)
       IN  /\ r.err = Nil
           /\ db' = [db EXCEPT ![k] = r.doc]
           /\ nextID' = IF db[k].exists THEN nextID ELSE nextID + 1
           /\ lu' = [lu EXCEPT !.callers[c] =
                        [@ EXCEPT !.pc = "enqueue", !.key = k,
                                  !.id = r.ruleSync.SyncID]]
    /\ UpdUnchanged

\* enqueue or dequeue reads l.addSyncID or l.removeSyncID and finds no
\* receiver ready: the caller blocks in the send on that channel.
UpdSendBlocks(c) ==
    /\ lu.pc # "panic"
    /\ lu.callers[c].pc \in {"enqueue", "held"}
    /\ lu.callers[c].ch = NoChan
    /\ lu' = [lu EXCEPT !.callers[c].ch = lu.restarts]
    /\ UNCHANGED << db, nextID >>
    /\ UpdUnchanged

\* updater.enqueue(ruleSync.SyncID) meets the loop's `case id := <-l.addSyncID`.
UpdEnqueue(c) ==
    /\ lu.callers[c].pc = "enqueue"
    /\ Receiving(lu, lu.callers[c].ch)
    /\ LET u == UpdaterEnqueue(lu.u, lu.callers[c].id, ZeroTime)
       IN  lu' = [LoopActed(lu) EXCEPT
                     !.u = u, !.pc = LoopAfterEvent(u),
                     !.shared = @ \/ lu.callers[c].id \in lu.u.syncIDSet,
                     !.callers[c].pc = "held", !.callers[c].ch = NoChan]
    /\ UNCHANGED << db, nextID >>
    /\ UpdUnchanged

\* SyncEnd: updater.dequeue(ruleSync.SyncID) meets `case id := <-l.removeSyncID`.
UpdDequeue(c) ==
    /\ lu.callers[c].pc = "held"
    /\ Receiving(lu, lu.callers[c].ch)
    /\ LET u == UpdaterDequeue(lu.u, lu.callers[c].id, ZeroTime)
       IN  lu' = [LoopActed(lu) EXCEPT
                     !.u = [u EXCEPT !.timer = ZeroTime],
                     !.pc = LoopAfterEvent(u),
                     !.callers[c].pc = "end", !.callers[c].ch = NoChan]
    /\ UNCHANGED << db, nextID >>
    /\ UpdUnchanged

\* SyncEnd: stor.EndSync(ruleSync, syncData).
UpdEndSync(c) ==
    /\ lu.pc # "panic"
    /\ lu.callers[c].pc = "end"
    /\ db' = [db EXCEPT ![lu.callers[c].key] = EndSyncStorage(@, now, EmptySyncData)]
    /\ lu' = [lu EXCEPT !.callers[c] = [IdleCaller EXCEPT !.done = lu.callers[c].done + 1]]
    /\ UNCHANGED nextID
    /\ UpdUnchanged

\* The loop's `case <-time.After(lockUpdaterInterval)` with IDs tracked.
UpdTimeout ==
    /\ lu.pc = "select"
    /\ lu.u.syncIDSet # {}
    /\ lu' = [LoopActed(lu) EXCEPT !.pc = "ping"]
    /\ UNCHANGED << db, nextID >>
    /\ UpdUnchanged

\* The end of the iteration: storage.GetSyncStorage(), stor.PingSyncs(syncs).
UpdPing(outcome) ==
    /\ lu.pc = "ping"
    /\ db' = IF outcome = "ok" THEN UpdaterPing(db, lu.u, now) ELSE db
    /\ lu' = [LoopActed(lu) EXCEPT !.pc = LoopAfterPing(outcome), !.last = outcome]
    /\ UNCHANGED nextID
    /\ UpdUnchanged

\* stop() is called: the send on stopCh begins.
UpdStopCall ==
    /\ lu.pc # "panic"
    /\ lu.stop = "idle"
    /\ lu.restarts < MaxRestarts
    /\ lu' = [lu EXCEPT !.stop = "stopping"]
    /\ UNCHANGED << db, nextID >>
    /\ UpdUnchanged

\* The loop takes the stop signal in its select; stop() returns.
UpdStopTaken ==
    /\ lu.stop = "stopping"
    /\ lu.pc = "select"
    /\ lu' = [lu EXCEPT !.stop = "stopped", !.pc = LoopOnStop(lu.pc), !.last = "none"]
    /\ UNCHANGED << db, nextID >>
    /\ UpdUnchanged

\* run() after stop(): new channels, a new map, a new loop goroutine.
UpdRun ==
    /\ lu.stop = "stopped"
    /\ lu' = [lu EXCEPT !.stop = "idle", !.pc = "select",
                        !.u = [syncIDSet |-> {}, timer |-> ZeroTime],
                        !.restarts = @ + 1, !.touched = FALSE, !.fresh = TRUE,
                        !.last = "none"]
    /\ UNCHANGED << db, nextID >>
    /\ UpdUnchanged

NextUpdater ==
    \/ \E c \in Callers, k \in UpdKeys, force \in BOOLEAN : UpdSyncStart(c, k, force)
    \/ \E c \in Callers : UpdSendBlocks(c)
    \/ \E c \in Callers : UpdEnqueue(c)
    \/ \E c \in Callers : UpdDequeue(c)
    \/ \E c \in Callers : UpdEndSync(c)
    \/ UpdTimeout
    \/ \E outcome \in PingOutcomes : UpdPing(outcome)
    \/ UpdStopCall
    \/ UpdStopTaken
    \/ UpdRun

SpecUpdater == InitUpd /\ [][NextUpdater]_vars

(***************************************************************************)
(* SpecLogic: one logicCache shared by the engine goroutines of a pass.    *)
(* LogicFromRule takes the mutex, looks the source's key up, creates and   *)
(* stores the logic object on a miss, and returns with the mutex released. *)
(* The caller may then resolve the Kubernetes config through the object,   *)
(* which sends requests to the tsuru API.                                  *)
(***************************************************************************)
\* The LogicFromRule calls one goroutine makes.
MaxLogicCalls == 2

EmptyRuleError == "rule must have an app name or a pool name"

LogicSource(kind, app, pool, job) ==
    [kind |-> kind, AppName |-> app, PoolName |-> pool, JobName |-> job]

\* Source descriptors: an app by name, an app by pool, an app descriptor with
\* neither, and a job.
LogicSources ==
    {LogicSource("app", "app1", "", ""), LogicSource("app", "", "p1", ""),
     LogicSource("app", "", "", ""), LogicSource("job", "", "", "job1")}

LogicRules == [Source : LogicSources, Destination : {"d1", "d2"}]

\* RuleType.CacheKey: the JSON text of the source descriptor, here the
\* sequence of its fields.
CacheKey(source) ==
    << source.kind, source.AppName, source.PoolName, source.JobName >>

CacheKeys == {CacheKey(src) : src \in LogicSources}

\* A key that is not in the map, and the nil RuleLogic.
AbsentLogic == [logic |-> "absent", id |-> 0]
NilLogic == [logic |-> NoLogic, id |-> 0]

\* The object logicFromRuleType makes for a source; id tells the objects
\* apart.
NewLogic(source, id) ==
    IF LogicFromRuleType(source.kind) = NoLogic
    THEN NilLogic
    ELSE [logic |-> LogicFromRuleType(source.kind), id |-> id]

\* A cache without the mutex.
MutMutexFree(holder) == TRUE

\* l.Lock() succeeds while no goroutine holds the mutex.
MutexFree(holder) == holder = 0

\* An emptiness test that never fires.
MutIsEmptyRuleNever(source) == FALSE

\* tsuruAppRuleLogic.isEmptyRule.
IsEmptyRule(source) == source.AppName = "" /\ source.PoolName = ""

\* tsuruAppRuleLogic.getPoolName, with the requests it sent.
GetPoolName(source, appInfoOk) ==
    IF IsEmptyRule(source)
    THEN [pool |-> "", err |-> EmptyRuleError, reqs |-> << >>]
    ELSE IF source.AppName # ""
    THEN IF appInfoOk
         THEN [pool |-> "p1", err |-> Nil, reqs |-> << "AppInfo" >>]
         ELSE [pool |-> "", err |-> "app info error", reqs |-> << "AppInfo" >>]
    ELSE [pool |-> source.PoolName, err |-> Nil, reqs |-> << >>]

\* tsuruAppRuleLogic.getPool: poolInfo is the provisioner PoolInfo reports,
\* or "error".
GetPool(source, appInfoOk, poolInfo) ==
    LET n == GetPoolName(source, appInfoOk)
    IN  IF n.err # Nil
        THEN [Provisioner |-> "", err |-> n.err, reqs |-> n.reqs]
        ELSE IF poolInfo = "error"
        THEN [Provisioner |-> "", err |-> PoolError,
              reqs |-> Append(n.reqs, "PoolInfo")]
        ELSE [Provisioner |-> poolInfo, err |-> Nil,
              reqs |-> Append(n.reqs, "PoolInfo")]

\* tsuruAppRuleLogic.KubernetesRestConfig with the requests it sent.
ResolveRestConfig(source, appInfoOk, poolInfo, clusterOk) ==
    LET p == GetPool(source, appInfoOk, poolInfo)
        c == KubernetesRestConfig(p.Provisioner,
                                  IF clusterOk THEN "ok" ELSE "clusterError")
    IN  IF p.err # Nil
        THEN [done |-> TRUE, handle |-> FALSE, err |-> p.err, reqs |-> p.reqs]
        ELSE [done |-> TRUE, handle |-> c.handle, err |-> c.err,
              reqs |-> IF c.lookup THEN Append(p.reqs, "PoolCluster") ELSE p.reqs]

IdleLogicTask ==
    [pc |-> "idle", rule |-> [Source |-> LogicSource("app", "app1", "", ""),
                              Destination |-> "d1"],
     obj |-> AbsentLogic, calls |-> 0,
     resolved |-> [done |-> FALSE, handle |-> FALSE, err |-> Nil, reqs |-> << >>]]

\* NewLogicCache(): no map yet, which reads as an empty one.
InitLog ==
    /\ InitBase /\ InitStore /\ InitCycles /\ InitEngine /\ InitLoopOff
    /\ InitOperatorOff
    /\ lu = NoUse /\ val = NoUse /\ hk = NoUse /\ cl = NoUse /\ si = NoUse
    /\ lc = [pc |-> "on", mutex |-> 0, nextObj |-> 1,
             cache |-> [k \in CacheKeys |-> AbsentLogic],
             made |-> [k \in CacheKeys |-> 0],
             returned |-> [k \in CacheKeys |-> {}],
             rets |-> [k \in CacheKeys |-> {}],
             tasks |-> [t \in EngineNames |-> IdleLogicTask]]

LogicUnchanged ==
    UNCHANGED << now, db, lockExpireTime, nextID, storeVars, engVars, loopVars,
                 opVars, lu, val, hk, cl, si >>

\* LogicFromRule is called for rule r: l.Lock().
LogicLock(t, r) ==
    /\ lc.tasks[t].pc = "idle"
    /\ lc.tasks[t].calls < MaxLogicCalls
    /\ MutexFree(lc.mutex)
    /\ lc' = [lc EXCEPT !.mutex = t,
                        !.tasks[t] = [IdleLogicTask EXCEPT
                                         !.pc = "lookup", !.rule = r,
                                         !.calls = lc.tasks[t].calls]]
    /\ LogicUnchanged

\* srcLogic, ok := l.cache[srcKey].
LogicLookup(t) ==
    /\ lc.tasks[t].pc = "lookup"
    /\ LET k == CacheKey(lc.tasks[t].rule.Source)
       IN  lc' = IF lc.cache[k] = AbsentLogic
                 THEN [lc EXCEPT !.tasks[t].pc = "create"]
                 ELSE [lc EXCEPT !.tasks[t].pc = "return",
                                 !.tasks[t].obj = lc.cache[k]]
    /\ LogicUnchanged

\* The miss: srcLogic = l.logicFromRuleType(r.Source); l.cache[srcKey] = srcLogic.
LogicCreate(t) ==
    /\ lc.tasks[t].pc = "create"
    /\ LET k == CacheKey(lc.tasks[t].rule.Source)
           o == NewLogic(lc.tasks[t].rule.Source, lc.nextObj)
       IN  lc' = [lc EXCEPT !.tasks[t].pc = "return",
                            !.tasks[t].obj = o,
                            !.cache[k] = o,
                            !.made[k] = @ + 1,
                            !.nextObj = IF o = NilLogic THEN @ ELSE @ + 1]
    /\ LogicUnchanged

\* return srcLogic, nil, with the deferred l.Unlock().
LogicReturn(t) ==
    /\ lc.tasks[t].pc = "return"
    /\ LET k == CacheKey(lc.tasks[t].rule.Source)
       IN  lc' = [lc EXCEPT !.mutex = 0,
                            !.tasks[t].pc = "got",
                            !.tasks[t].calls = @ + 1,
                            !.returned[k] = @ \cup {lc.tasks[t].obj},
                            !.rets[k] = @ \cup {<< t, lc.tasks[t].rule.Destination >>}]
    /\ LogicUnchanged

\* The caller uses what it got: with the nil logic it returns, otherwise it
\* calls KubernetesRestConfig on the object.
LogicResolve(t) ==
    /\ lc.tasks[t].pc = "got"
    /\ IF lc.tasks[t].obj = NilLogic
       THEN lc' = [lc EXCEPT !.tasks[t].pc = "idle"]
       ELSE \E appInfoOk \in BOOLEAN, poolInfo \in {"kubernetes", "docker", "error"},
               clusterOk \in BOOLEAN :
              lc' = [lc EXCEPT !.tasks[t].pc = "idle",
                               !.tasks[t].resolved =
                                   ResolveRestConfig(lc.tasks[t].rule.Source,
                                                     appInfoOk, poolInfo, clusterOk)]
    /\ LogicUnchanged

NextLogic ==
    \/ \E t \in EngineNames, r \in LogicRules : LogicLock(t, r)
    \/ \E t \in EngineNames : LogicLookup(t)
    \/ \E t \in EngineNames : LogicCreate(t)
    \/ \E t \in EngineNames : LogicReturn(t)
    \/ \E t \in EngineNames : LogicResolve(t)

SpecLogic == InitLog /\ [][NextLogic]_vars

(***************************************************************************)
(* SpecValidate: ruleServiceImpl.Save validates every rule of the request  *)
(* (source, then destination) and hands the whole list to the storage only *)
(* when all of them passed.  Names are sequences of characters so that the *)
(* checks on their form are computed.                                      *)
(***************************************************************************)
\* Endpoint kinds one descriptor of the inputs has set at most, and the rules
\* of one Save request.
MaxKindsSet == 2
MaxSaveRules == 2

TsuruNameMax == 40
DNS1035LabelMax == 63
DNS1123SubdomainMax == 253
IPv4Bits == 32
IPv6Bits == 128
LargeCIDROnes == 22
NoMask == -1

LowerLetters ==
    {"a", "b", "c", "d", "e", "f", "g", "h", "i", "j", "k", "l", "m", "n", "o",
     "p", "q", "r", "s", "t", "u", "v", "w", "x", "y", "z"}
LowerAlnum == LowerLetters \cup {"0", "1", "2", "3", "4", "5", "6", "7", "8", "9"}

\* tsuruNameRegexp: ^[a-z][a-z0-9-]{0,39}$
ValidateTsuruName(name) ==
    /\ Len(name) >= 1 /\ Len(name) <= TsuruNameMax
    /\ name[1] \in LowerLetters
    /\ \A i \in 1 .. Len(name) : name[i] \in LowerAlnum \cup {"-"}

\* validation.IsDNS1035Label: [a-z]([-a-z0-9]*[a-z0-9])?, at most 63 long.
IsDNS1035Label(name) ==
    /\ Len(name) >= 1 /\ Len(name) <= DNS1035LabelMax
    /\ name[1] \in LowerLetters
    /\ name[Len(name)] \in LowerAlnum
    /\ \A i \in 1 .. Len(name) : name[i] \in LowerAlnum \cup {"-"}

\* validation.IsDNS1123Subdomain: labels [a-z0-9]([-a-z0-9]*[a-z0-9])? joined
\* by dots, at most 253 long.
IsDNS1123Subdomain(name) ==
    /\ Len(name) >= 1 /\ Len(name) <= DNS1123SubdomainMax
    /\ name[1] \in LowerAlnum
    /\ name[Len(name)] \in LowerAlnum
    /\ \A i \in 1 .. Len(name) :
         \/ name[i] \in LowerAlnum \cup {"-"}
         \/ /\ name[i] = "."
            /\ i > 1 /\ i < Len(name)
            /\ name[i - 1] \in LowerAlnum
            /\ name[i + 1] \in LowerAlnum

\* strings.HasSuffix.
HasSuffix(name, suffix) ==
    /\ Len(name) >= Len(suffix)
    /\ SubSeq(name, Len(name) - Len(suffix) + 1, Len(name)) = suffix

ClusterLocal ==
    << "c", "l", "u", "s", "t", "e", "r", ".", "l", "o", "c", "a", "l" >>

\* strings.ToUpper on the protocol names of the inputs.
ToUpper(proto) ==
    IF proto = "tcp" THEN "TCP" ELSE IF proto = "udp" THEN "UDP" ELSE proto

\* validatePorts: the error of the first port that is 0 or whose protocol is
\* neither TCP nor UDP.
ValidatePorts(ports) ==
    LET bad == {i \in 1 .. Len(ports) :
                  ports[i].Port = 0 \/ ToUpper(ports[i].Protocol) \notin {"TCP", "UDP"}}
    IN  IF bad = {}
        THEN Nil
        ELSE LET i == CHOOSE j \in bad : \A m \in bad : j <= m
             IN  IF ports[i].Port = 0
                 THEN "invalid port number 0"
                 ELSE "invalid protocol"

\* An address is its family ("v4" has dots, "v6" has colons, "text" has
\* neither, "" is the empty string) and the prefix length after its "/",
\* NoMask without one.  The text Validate hands to net.ParseCIDR:
IPToValidate(ip) ==
    IF ip.mask # NoMask
    THEN ip
    ELSE IF ip.addr = "v6"
    THEN [ip EXCEPT !.mask = IPv6Bits]
    ELSE IF ip.addr = "v4"
    THEN [ip EXCEPT !.mask = IPv4Bits]
    ELSE ip

\* net.ParseCIDR and ipNet.Mask.Size().
ParseCIDR(ip) ==
    LET bits == IF ip.addr = "v6" THEN IPv6Bits ELSE IPv4Bits
    IN  IF ip.addr \notin {"v4", "v6"} \/ ip.mask = NoMask \/ ip.mask > bits
        THEN [err |-> "invalid CIDR address", ones |-> 0, bits |-> 0]
        ELSE [err |-> Nil, ones |-> ip.mask, bits |-> bits]

\* A count that lets several kinds through.
MutCountOkSome(countSet) == countSet >= 1

\* if countSet != 1 { return errors.New("exactly one rule type must be set") }
CountOk(countSet) == countSet = 1

\* countSet as Validate has counted it when it reaches the test.
CountSet(r) ==
    (IF r.TsuruApp.set THEN 1 ELSE 0) + (IF r.TsuruJob.set THEN 1 ELSE 0)
    + (IF r.RpaasInstance.set THEN 1 ELSE 0) + (IF r.ExternalDNS.set THEN 1 ELSE 0)
    + (IF r.ExternalIP.set THEN 1 ELSE 0)

\* The checks of each kind, in the order of RuleType.Validate.
ValidateTsuruApp(a) ==
    IF a.AppName = << >> /\ a.PoolName = ""
    THEN "cannot have empty tsuru app name and pool name"
    ELSE IF a.AppName # << >> /\ a.PoolName # ""
    THEN "cannot set both app name and pool name"
    ELSE IF a.AppName # << >> /\ ~ValidateTsuruName(a.AppName)
    THEN "invalid app name"
    ELSE Nil

ValidateTsuruJob(j) ==
    IF j.JobName = << >>
    THEN "cannot have empty tsuru job name"
    ELSE IF ~ValidateTsuruName(j.JobName)
    THEN "invalid job name"
    ELSE Nil

ValidateRpaas(i) ==
    IF i.ServiceName = << >> \/ i.Instance = << >>
    THEN "cannot have empty rpaas serviceName or instance"
    ELSE IF ~IsDNS1035Label(i.ServiceName)
    THEN "Invalid rpaas service name"
    ELSE IF ~IsDNS1035Label(i.Instance)
    THEN "Invalid rpaas instance name"
    ELSE Nil

ValidateExternalDNS(dns) ==
    LET nameToValidate == IF dns.Name # << >> /\ dns.Name[1] = "."
                          THEN Tail(dns.Name)
                          ELSE dns.Name
    IN  IF dns.Name = << >>
        THEN "cannot have empty external dns name"
        ELSE IF ~IsDNS1123Subdomain(nameToValidate)
        THEN "DNS Rule: Name must be a valid DNS name"
        ELSE IF HasSuffix(dns.Name, ClusterLocal)
        THEN "DNS Rule: Name must not be a cluster internal address"
        ELSE Nil

ValidateExternalIP(x) ==
    LET parsed == ParseCIDR(IPToValidate(x.IP))
    IN  IF x.IP.addr = ""
        THEN "cannot have empty external ip address"
        ELSE IF parsed.err # Nil
        THEN "IP Rule: Invalid IP"
        ELSE IF parsed.bits = IPv6Bits
        THEN "IP Rule: Invalid IP, IPv6 is not supported yet"
        ELSE IF parsed.ones < LargeCIDROnes /\ parsed.bits = IPv4Bits /\ Len(x.Ports) = 0
        THEN "IP Rule: Large CIDR, the maximum size of network without ports is /22"
        ELSE Nil

\* RuleType.Validate.
Validate(r) ==
    LET ports == IF r.ExternalIP.set THEN r.ExternalIP.Ports
                 ELSE IF r.ExternalDNS.set THEN r.ExternalDNS.Ports
                 ELSE << >>
    IN  IF r.TsuruApp.set /\ ValidateTsuruApp(r.TsuruApp) # Nil
        THEN ValidateTsuruApp(r.TsuruApp)
        ELSE IF r.TsuruJob.set /\ ValidateTsuruJob(r.TsuruJob) # Nil
        THEN ValidateTsuruJob(r.TsuruJob)
        ELSE IF r.RpaasInstance.set /\ ValidateRpaas(r.RpaasInstance) # Nil
        THEN ValidateRpaas(r.RpaasInstance)
        ELSE IF r.ExternalDNS.set /\ ValidateExternalDNS(r.ExternalDNS) # Nil
        THEN ValidateExternalDNS(r.ExternalDNS)
        ELSE IF r.ExternalIP.set /\ ValidateExternalIP(r.ExternalIP) # Nil
        THEN ValidateExternalIP(r.ExternalIP)
        ELSE IF r.KubernetesService.set
        THEN "Kubernetes Service Rule: has been deactivated for use"
        ELSE IF ~CountOk(CountSet(r))
        THEN "exactly one rule type must be set"
        ELSE ValidatePorts(ports)

\* validateRule: the error with the side it was found on.
ValidateRule(r) ==
    IF Validate(r.Source) # Nil
    THEN [side |-> "source", msg |-> Validate(r.Source)]
    ELSE IF Validate(r.Destination) # Nil
    THEN [side |-> "destination", msg |-> Validate(r.Destination)]
    ELSE [side |-> "", msg |-> Nil]

\* A descriptor with no kind set.
NoType ==
    [TsuruApp |-> [set |-> FALSE, AppName |-> << >>, PoolName |-> ""],
     TsuruJob |-> [set |-> FALSE, JobName |-> << >>],
     RpaasInstance |-> [set |-> FALSE, ServiceName |-> << >>, Instance |-> << >>],
     ExternalDNS |-> [set |-> FALSE, Name |-> << >>, Ports |-> << >>],
     ExternalIP |-> [set |-> FALSE, IP |-> [addr |-> "", mask |-> NoMask],
                     Ports |-> << >>],
     KubernetesService |-> [set |-> FALSE]]

PortLists ==
    {<< >>,
     << [Protocol |-> "tcp", Port |-> 80], [Protocol |-> "UDP", Port |-> 53] >>,
     << [Protocol |-> "TCP", Port |-> 0] >>,
     << [Protocol |-> "ICMP", Port |-> 8] >>}

\* The kinds a descriptor has set.
KindsSet(r) == {k \in DOMAIN NoType : r[k].set}

\* The descriptors of the inputs: every kind is unset or has one of a few
\* values, well-formed and not, and at most maxKinds kinds are set.
RuleTypes(maxKinds) ==
    LET apps == [set : {TRUE}, AppName : {<< >>, << "a", "1" >>, << "1", "a" >>},
                 PoolName : {"", "p1"}]
        jobs == [set : {TRUE}, JobName : {<< >>, << "j", "-", "1" >>, << "J" >>}]
        rpaas == [set : {TRUE}, ServiceName : {<< >>, << "r", "1" >>, << "1", "r" >>},
                  Instance : {<< >>, << "i" >>, << "i", "-" >>}]
        dns == [set : {TRUE},
                Name : {<< >>, << "a", ".", "b" >>, << ".", "a", ".", "b" >>,
                        << "a", "_", "b" >>, << "x", "." >> \o ClusterLocal},
                Ports : PortLists]
        ips == [set : {TRUE},
                IP : {[addr |-> "", mask |-> NoMask], [addr |-> "v4", mask |-> NoMask],
                      [addr |-> "v4", mask |-> 8], [addr |-> "v4", mask |-> LargeCIDROnes],
                      [addr |-> "v6", mask |-> NoMask],
                      [addr |-> "text", mask |-> NoMask]},
                Ports : PortLists]
    IN  {r \in [TsuruApp : {NoType.TsuruApp} \cup apps,
                TsuruJob : {NoType.TsuruJob} \cup jobs,
                RpaasInstance : {NoType.RpaasInstance} \cup rpaas,
                ExternalDNS : {NoType.ExternalDNS} \cup dns,
                ExternalIP : {NoType.ExternalIP} \cup ips,
                KubernetesService : {[set |-> FALSE], [set |-> TRUE]}] :
            Cardinality(KindsSet(r)) <= maxKinds}

\* The requests: a first rule with every descriptor on one side and one of
\* a few on the other (an app by name, an external address with ports, no
\* kind at all, a Kubernetes service), and up to maxRules - 1 more rules:
\* one that passes, one whose source does not, one whose destination does
\* not.
SaveRequests(maxKinds, maxRules) ==
    LET appSide == [NoType EXCEPT !.TsuruApp = [set |-> TRUE, AppName |-> << "a", "1" >>,
                                                PoolName |-> ""]]
        ipSide == [NoType EXCEPT !.ExternalIP =
                      [set |-> TRUE, IP |-> [addr |-> "v4", mask |-> 8],
                       Ports |-> << [Protocol |-> "tcp", Port |-> 80],
                                    [Protocol |-> "UDP", Port |-> 53] >>]]
        serviceSide == [NoType EXCEPT !.KubernetesService = [set |-> TRUE]]
        sides == {appSide, ipSide, NoType, serviceSide}
        Rule(src, dst) == [RuleID |-> "", Source |-> src, Destination |-> dst]
        firstRules == {Rule(a, b) : a \in RuleTypes(maxKinds), b \in sides}
                          \cup {Rule(a, b) : a \in sides, b \in RuleTypes(maxKinds)}
        moreRules == {Rule(appSide, ipSide), Rule(NoType, appSide),
                      Rule(appSide, serviceSide)}
    IN  UNION {{<< first >> \o more : first \in firstRules,
                                      more \in [1 .. n -> moreRules]} :
                  n \in 0 .. maxRules - 1}

InitVal ==
    /\ InitBase /\ InitStore /\ InitCycles /\ InitEngine /\ InitLoopOff
    /\ InitOperatorOff
    /\ lu = NoUse /\ lc = NoUse /\ val = [pc |-> "idle"]
    /\ hk = NoUse /\ cl = NoUse /\ si = NoUse

\* ruleStorage.Save: the rules get their ID and are written in order; a
\* write that fails (failAt) ends the call with the earlier ones written.
StorageSave(rules, failAt) ==
    LET n == IF failAt = 0 THEN Len(rules) ELSE failAt - 1
    IN  [err |-> IF failAt = 0 THEN Nil ELSE "storage error",
         stored |-> [i \in 1 .. n |-> [rules[i] EXCEPT !.RuleID = "new"]]]

\* ruleServiceImpl.Save: the error of the first rule validateRule rejects, or
\* what the storage answers.
ServiceSave(rules, failAt) ==
    LET invalid == {i \in 1 .. Len(rules) : ValidateRule(rules[i]).msg # Nil}
        bad == CHOOSE j \in invalid : \A m \in invalid : j <= m
        res == StorageSave(rules, failAt)
    IN  IF invalid # {}
        THEN [err |-> ValidateRule(rules[bad]), stored |-> << >>]
        ELSE [err |-> [side |-> "storage", msg |-> res.err], stored |-> res.stored]

\* One Save request.
SaveRules(rules, failAt) ==
    /\ val.pc = "idle"
    /\ LET res == ServiceSave(rules, failAt)
       IN  val' = [pc |-> "done", rules |-> rules, err |-> res.err,
                   stored |-> res.stored]
    /\ UNCHANGED << now, db, lockExpireTime, nextID, storeVars, engVars, loopVars,
                    opVars, lu, lc, hk, cl, si >>

NextValidate ==
    /\ val.pc = "idle"
    /\ \E rules \in SaveRequests(MaxKindsSet, MaxSaveRules), failAt \in 0 .. MaxSaveRules :
         /\ failAt <= Len(rules)
         /\ SaveRules(rules, failAt)

SpecValidate == InitVal /\ [][NextValidate]_vars

(***************************************************************************)
(* SpecHooks: SyncRules and the hooks of the engines.  Each call makes one *)
(* LogicCache and starts one engineSync goroutine per enabled engine; an   *)
(* engine that implements EngineWithHooks gets BeforeSync with the cache   *)
(* of the call, then the rules, then AfterSync.  Every hook and every rule *)
(* may return an error.  Calls run concurrently.                           *)
(***************************************************************************)
\* The rules of a batch, and the SyncRules calls made in all.
MaxHookRules == 2
MaxHookCalls == 3

\* The engines that implement EngineWithHooks (the acl-operator engine).
WithHooks == {e \in EngineNames : e % 2 = 1}

\* The locals of an engineSync goroutine and the calls the engine received.
StartHookTask == [pc |-> "start", i |-> 0, errs |-> FALSE, events |-> << >>]

NoHookCall ==
    [active |-> FALSE, cache |-> 0, n |-> 0,
     eng |-> [e \in EngineNames |-> [StartHookTask EXCEPT !.pc = "done"]]]

InitHooks ==
    /\ InitBase /\ InitStore /\ InitCycles /\ InitEngine /\ InitLoopOff
    /\ InitOperatorOff
    /\ lu = NoUse /\ lc = NoUse /\ val = NoUse /\ cl = NoUse /\ si = NoUse
    /\ hk = [next |-> 1, started |-> 0, call |-> [p \in Passes |-> NoHookCall]]

HooksUnchanged ==
    UNCHANGED << now, db, lockExpireTime, nextID, storeVars, engVars, loopVars,
                 opVars, lu, lc, val, cl, si >>

\* An engineSync that returns when BeforeSync fails.
MutAfterBeforeSyncReturn(err) == IF err = Nil THEN "rules" ELSE "done"

\* engineSync after BeforeSync: its error is logged, the rules follow.
AfterBeforeSync(err) == "rules"

\* SyncRules(rules, force): rule.NewLogicCache(), one goroutine per engine.
HookSyncRules(p, n) ==
    /\ ~hk.call[p].active
    /\ hk.started < MaxHookCalls
    /\ hk' = [hk EXCEPT !.next = @ + 1, !.started = @ + 1,
                        !.call[p] = [active |-> TRUE, cache |-> hk.next, n |-> n,
                                     eng |-> [e \in EngineNames |-> StartHookTask]]]
    /\ HooksUnchanged

\* engineSync up to the loop over the rules: BeforeSync(logicCache) when the
\* engine has hooks.
HookBeforeSync(p, e, err) ==
    /\ hk.call[p].active
    /\ hk.call[p].eng[e].pc = "start"
    /\ hk' = [hk EXCEPT !.call[p].eng[e] =
                 IF e \in WithHooks
                 THEN [@ EXCEPT !.pc = AfterBeforeSync(err),
                                !.errs = err # Nil,
                                !.events = Append(@, [op |-> "BeforeSync",
                                                      arg |-> hk.call[p].cache])]
                 ELSE [@ EXCEPT !.pc = "rules"]]
    /\ HooksUnchanged

\* One iteration of the loop: syncRule; an error is counted and logged.
HookSyncRule(p, e, err) ==
    /\ hk.call[p].active
    /\ hk.call[p].eng[e].pc = "rules"
    /\ hk.call[p].eng[e].i < hk.call[p].n
    /\ hk' = [hk EXCEPT !.call[p].eng[e] =
                 [@ EXCEPT !.i = @ + 1, !.errs = @ \/ err # Nil,
                           !.events = Append(@, [op |-> "syncRule",
                                                 arg |-> hk.call[p].eng[e].i + 1])]]
    /\ HooksUnchanged

\* engineSync after the loop: AfterSync() when the engine has hooks.
HookAfterSync(p, e, err) ==
    /\ hk.call[p].active
    /\ hk.call[p].eng[e].pc = "rules"
    /\ hk.call[p].eng[e].i = hk.call[p].n
    /\ hk' = [hk EXCEPT !.call[p].eng[e] =
                 IF e \in WithHooks
                 THEN [@ EXCEPT !.pc = "done", !.errs = @ \/ err # Nil,
                                !.events = Append(@, [op |-> "AfterSync", arg |-> 0])]
                 ELSE [@ EXCEPT !.pc = "done"]]
    /\ HooksUnchanged

\* wg.Wait() returns: SyncRules returns.
HookReturn(p) ==
    /\ hk.call[p].active
    /\ \A e \in EngineNames : hk.call[p].eng[e].pc = "done"
    /\ hk' = [hk EXCEPT !.call[p].active = FALSE]
    /\ HooksUnchanged

NextHooks ==
    \/ \E p \in Passes, n \in 0 .. MaxHookRules : HookSyncRules(p, n)
    \/ \E p \in Passes, e \in EngineNames, err \in {Nil, SyncError} :
          HookBeforeSync(p, e, err)
    \/ \E p \in Passes, e \in EngineNames, err \in {Nil, SyncError} :
          HookSyncRule(p, e, err)
    \/ \E p \in Passes, e \in EngineNames, err \in {Nil, SyncError} :
          HookAfterSync(p, e, err)
    \/ \E p \in Passes : HookReturn(p)

SpecHooks == InitHooks /\ [][NextHooks]_vars

(***************************************************************************)
(* SpecClusters: tsuruClient.PoolCluster on the clusters the tsuru API     *)
(* lists, drawn in Init, for a pool of either provisioner.                 *)
(***************************************************************************)
MaxClusters == 3

kubernetesProvisioner == "kubernetes"
ErrNotKubernetesPool == "not a kubernetes pool"
ErrClusterNotFound == "cluster not found"
ClustersError == "clusters error"

\* No cluster: the nil *provTypes.Cluster.  A cluster is named by its place
\* in the list.
NoCluster == 0

\* A lookup that finds the pool in no cluster.
MutListsPoolNever(c, name) == FALSE

\* `for _, p := range c.Pools { if p == tsuruPool.Name`.
ListsPool(c, name) == name \in c.Pools

\* The loop of PoolCluster from the cluster at i on, with the default cluster
\* chosen so far.
RECURSIVE PoolClusterFrom(_, _, _, _)
PoolClusterFrom(clusters, i, chosenCluster, name) ==
    IF i > Len(clusters)
    THEN IF chosenCluster = NoCluster
         THEN [cluster |-> NoCluster, err |-> ErrClusterNotFound]
         ELSE [cluster |-> chosenCluster, err |-> Nil]
    ELSE LET c == clusters[i]
         IN  IF c.Provisioner # kubernetesProvisioner
             THEN PoolClusterFrom(clusters, i + 1, chosenCluster, name)
             ELSE IF ListsPool(c, name)
             THEN [cluster |-> i, err |-> Nil]
             ELSE PoolClusterFrom(clusters, i + 1,
                                  IF c.Default THEN i ELSE chosenCluster, name)

\* tsuruClient.PoolCluster(tsuruPool); clustersErr: t.Clusters() fails.
PoolCluster(tsuruPool, clusters, clustersErr) ==
    IF tsuruPool.Provisioner # kubernetesProvisioner
    THEN [cluster |-> NoCluster, err |-> ErrNotKubernetesPool]
    ELSE IF clustersErr
    THEN [cluster |-> NoCluster, err |-> ClustersError]
    ELSE PoolClusterFrom(clusters, 1, NoCluster, tsuruPool.Name)

\* The lists of at most n clusters of either provisioner, flagged default or
\* not, with their pools.
ClusterLists(n) ==
    LET cluster == [Provisioner : {kubernetesProvisioner, "docker"},
                    Default : BOOLEAN,
                    Pools : {{}, {"p1"}, {"p2"}, {"p1", "p2"}}]
    IN  UNION {[1 .. k -> cluster] : k \in 0 .. n}

InitClusters ==
    /\ InitBase /\ InitStore /\ InitCycles /\ InitEngine /\ InitLoopOff
    /\ InitOperatorOff
    /\ lu = NoUse /\ lc = NoUse /\ val = NoUse /\ hk = NoUse /\ si = NoUse
    /\ \E clusters \in ClusterLists(MaxClusters) :
          cl = [pc |-> "idle", clusters |-> clusters]

\* One call of PoolCluster.
PoolClusterCall(tsuruPool, clustersErr) ==
    /\ cl.pc = "idle"
    /\ cl' = [pc |-> "done", clusters |-> cl.clusters, pool |-> tsuruPool,
              clustersErr |-> clustersErr,
              ret |-> PoolCluster(tsuruPool, cl.clusters, clustersErr)]
    /\ UNCHANGED << now, db, lockExpireTime, nextID, storeVars, engVars, loopVars,
                    opVars, lu, lc, val, hk, si >>

NextClusters ==
    \E provisioner \in {kubernetesProvisioner, "docker"}, clustersErr \in BOOLEAN :
        PoolClusterCall([Name |-> "p1", Provisioner |-> provisioner], clustersErr)

SpecClusters == InitClusters /\ [][NextClusters]_vars

(***************************************************************************)
(* SpecService: AddRule and RemoveRule of the service on one instance.     *)
(* The destination of a base rule is a descriptor as above; the new rule   *)
(* comes from the request body, its Removed flag included.  Calls are made *)
(* one after the other.                                                    *)
(***************************************************************************)
MaxBaseRules == 2
\* The rules added to the instance in all.
MaxAdded == 3

ErrRuleAlreadyExists == "rule already exists"

\* strings.ToLower on a protocol.
ToLower(proto) ==
    IF proto = "TCP" THEN "tcp" ELSE IF proto = "UDP" THEN "udp" ELSE proto

\* The ports of one protocol, as ProtoPorts.Equals collects them in a map.
PortsOf(ports, proto) ==
    {ports[i].Port : i \in {j \in 1 .. Len(ports) : ToLower(ports[j].Protocol) = proto}}

\* ProtoPorts.Equals: the same length and the same TCP and UDP ports.
ProtoPortsEquals(ports, other) ==
    /\ Len(ports) = Len(other)
    /\ PortsOf(ports, "tcp") = PortsOf(other, "tcp")
    /\ PortsOf(ports, "udp") = PortsOf(other, "udp")

\* ExternalDNSRule.Equals: the ports are compared when the receiver has some
\* (`t.Ports != nil`; a rule without ports has the nil slice).
ExternalDNSRuleEquals(t, other) ==
    /\ other.set
    /\ t.Name = other.Name
    /\ t.Ports # << >> => ProtoPortsEquals(t.Ports, other.Ports)

\* ExternalIPRule.Equals.
ExternalIPRuleEquals(t, other) ==
    /\ other.set
    /\ t.IP = other.IP
    /\ t.Ports # << >> => ProtoPortsEquals(t.Ports, other.Ports)

\* RuleType.Equals on two descriptors that are not nil: for each of the
\* kinds TsuruApp, KubernetesService, ExternalDNS, ExternalIP and
\* RpaasInstance that the receiver has set, the two must agree.  TsuruJob is
\* not looked at.
RuleTypeEquals(r, other) ==
    /\ r.TsuruApp.set => r.TsuruApp = other.TsuruApp
    /\ r.KubernetesService.set => r.KubernetesService = other.KubernetesService
    /\ r.ExternalDNS.set => ExternalDNSRuleEquals(r.ExternalDNS, other.ExternalDNS)
    /\ r.ExternalIP.set => ExternalIPRuleEquals(r.ExternalIP, other.ExternalIP)
    /\ r.RpaasInstance.set => r.RpaasInstance = other.RpaasInstance

\* serviceImpl.AddRule on the base rules of the instance: the new rule r
\* with the ID the storage gives it; syncErr: Save of the expanded rules
\* fails after the rule was added.
AddRule(baseRules, r, id, syncErr) ==
    IF Validate(r.Destination) # Nil
    THEN [err |-> Validate(r.Destination), BaseRules |-> baseRules]
    ELSE IF \E i \in 1 .. Len(baseRules) :
                /\ ~baseRules[i].Removed
                /\ RuleTypeEquals(baseRules[i].Destination, r.Destination)
    THEN [err |-> ErrRuleAlreadyExists, BaseRules |-> baseRules]
    ELSE [err |-> IF syncErr THEN StorageError ELSE Nil,
          BaseRules |-> Append(baseRules, [r EXCEPT !.RuleID = id])]

\* serviceStorage.RemoveRule: $pull of the base rule with the ID.
RemoveRule(baseRules, ruleID) ==
    SelectSeq(baseRules, LAMBDA b : b.RuleID # ruleID)

\* The destinations of the requests: an app, a job, a DNS name without
\* ports, with ports, with the same ports in another order and case, with
\* other ports, an address, and a descriptor with no kind.
ServiceDestinations ==
    LET dns(ports) == [NoType EXCEPT !.ExternalDNS =
                          [set |-> TRUE, Name |-> << "a", ".", "b" >>, Ports |-> ports]]
    IN  {[NoType EXCEPT !.TsuruApp = [set |-> TRUE, AppName |-> << "a", "1" >>,
                                      PoolName |-> ""]],
         [NoType EXCEPT !.TsuruJob = [set |-> TRUE, JobName |-> << "j", "-", "1" >>]],
         dns(<< >>),
         dns(<< [Protocol |-> "tcp", Port |-> 80], [Protocol |-> "UDP", Port |-> 53] >>),
         dns(<< [Protocol |-> "udp", Port |-> 53], [Protocol |-> "TCP", Port |-> 80] >>),
         dns(<< [Protocol |-> "tcp", Port |-> 80], [Protocol |-> "tcp", Port |-> 53] >>),
         [NoType EXCEPT !.ExternalIP = [set |-> TRUE, IP |-> [addr |-> "v4", mask |-> 8],
                                        Ports |-> << >>]],
         NoType}

InitService ==
    /\ InitBase /\ InitStore /\ InitCycles /\ InitEngine /\ InitLoopOff
    /\ InitOperatorOff
    /\ lu = NoUse /\ lc = NoUse /\ val = NoUse /\ hk = NoUse /\ cl = NoUse
    /\ si = [BaseRules |-> << >>, next |-> 1, last |-> [op |-> "none"]]

ServiceUnchanged ==
    UNCHANGED << now, db, lockExpireTime, nextID, storeVars, engVars, loopVars,
                 opVars, lu, lc, val, hk, cl >>

ServiceAddRule(destination, isRemoved, syncErr) ==
    /\ Len(si.BaseRules) < MaxBaseRules
    /\ si.next <= MaxAdded
    /\ LET r == [RuleID |-> 0, Removed |-> isRemoved, Destination |-> destination]
           out == AddRule(si.BaseRules, r, si.next, syncErr)
       IN  si' = [BaseRules |-> out.BaseRules,
                  next |-> IF out.BaseRules = si.BaseRules THEN si.next ELSE si.next + 1,
                  last |-> [op |-> "AddRule", r |-> r, pre |-> si.BaseRules,
                            err |-> out.err]]
    /\ ServiceUnchanged

ServiceRemoveRule(ruleID) ==
    /\ si' = [si EXCEPT !.BaseRules = RemoveRule(@, ruleID),
                        !.last = [op |-> "RemoveRule"]]
    /\ ServiceUnchanged

NextService ==
    \/ \E destination \in ServiceDestinations, isRemoved \in BOOLEAN, syncErr \in BOOLEAN :
          ServiceAddRule(destination, isRemoved, syncErr)
    \/ \E i \in 1 .. Len(si.BaseRules) : ServiceRemoveRule(si.BaseRules[i].RuleID)

SpecService == InitService /\ [][NextService]_vars

(***************************************************************************)
(* Properties of the sync storage.                                         *)
(***************************************************************************)

\* C1: among the non-forced StartSync calls racing on one key (made within
\* one lock expiry time, with no EndSync, ping, forced acquisition or change
\* of the expiry time between them) at most one succeeds and every other one
\* is denied with ErrSyncStorageLocked; exactly one succeeds when the key was
\* free when the race began.
OneWinnerPerRace ==
    \A k \in StoreKeys :
        /\ race[k].wins <= 1
        /\ race[k].t0 # ZeroTime /\ race[k].free => race[k].wins = 1

\* A race on a free key with one winner and at least two denied callers.
OneWinnerWitness ==
    \E k \in StoreKeys :
        race[k].free /\ race[k].wins = 1 /\ race[k].denied = 2

\* The record of a lock that was acquired, never pinged and never ended.
HeldNoPing(doc) ==
    doc.exists /\ doc.Running /\ doc.PingTime = doc.StartTime

\* C4 as stated: a non-forced StartSync on a lock held (no EndSync, no ping)
\* for longer than the configured lock expiry time succeeds.
LockExpiryAsStated ==
    ( /\ ret.op = "StartSync"
      /\ ~ret.force
      /\ HeldNoPing(ret.pre)
      /\ now - ret.pre.StartTime > lockExpireTime )
    => ret.err = Nil

\* C4, amended: a non-forced StartSync on a lock held (no EndSync, no ping)
\* for longer than both the configured lock expiry time and the caller's own
\* minimum interval `after` succeeds.
LockExpiry ==
    ( /\ ret.op = "StartSync"
      /\ ~ret.force
      /\ HeldNoPing(ret.pre)
      /\ now - ret.pre.StartTime > Max(lockExpireTime, ret.after) )
    => ret.err = Nil

\* A new caller acquired a lock whose holder never ended it.
LockExpiryWitness ==
    /\ ret.op = "StartSync"
    /\ ~ret.force
    /\ HeldNoPing(ret.pre)
    /\ ret.err = Nil
    /\ holders[ret.key] = 2
    /\ db[ret.key].Syncs = << >>

\* The record of a lock whose latest write was an EndSync.
Released(doc) ==
    doc.exists /\ ~doc.Running /\ doc.EndTime # ZeroTime /\ doc.PingTime = doc.EndTime

\* C5: after EndSync on a key at time t, with no other write to the key
\* since, a non-forced StartSync with minimum interval `after` is denied
\* before t + after and succeeds after t + after.
ResyncInterval ==
    ( /\ ret.op = "StartSync"
      /\ ~ret.force
      /\ Released(ret.pre) )
    => /\ now < ret.pre.EndTime + ret.after => ret.err = ErrSyncStorageLocked
       /\ now > ret.pre.EndTime + ret.after => ret.err = Nil

\* A key released at t is acquired again after t + after, after > 0.
ResyncIntervalWitness ==
    /\ ret.op = "StartSync"
    /\ ~ret.force
    /\ Released(ret.pre)
    /\ ret.after > 0
    /\ now > ret.pre.EndTime + ret.after
    /\ ret.err = Nil

\* C6: after n StartSync/EndSync cycles on one key the record's history
\* holds the last min(n, 10) outcomes handed to EndSync, oldest first.
HistoryLatestTen ==
    LET n == Len(log)
        m == IF n < 10 THEN n ELSE 10
        syncs == db[CycleKey].Syncs
    IN  /\ Len(syncs) = m
        /\ \A i \in 1 .. m : syncs[i] = log[n - m + i]

\* Twelve cycles were run and the history holds ten outcomes.
HistoryLatestTenWitness ==
    /\ Len(log) = 12
    /\ Len(db[CycleKey].Syncs) = 10
    /\ db[CycleKey].Syncs[1] # db[CycleKey].Syncs[10]

(***************************************************************************)
(* Properties of the sync coordinator.                                     *)
(***************************************************************************)
\* The rule and the key of the syncRule call a goroutine is in.
SyncRule(p, e) == pass[p].rules[task[p][e].i]

SyncKey(p, e) == << SyncRule(p, e).RuleID, e >>

\* Engine.Sync is executing in the goroutine.
InSync(p, e) == task[p][e].pc = "sync" /\ ~task[p][e].skip

\* The goroutine takes a step of syncRule that returns to engineSync.
SyncRuleReturns(p, e) ==
    /\ task[p][e].pc \in {"rule", "sync"}
    /\ task'[p][e].pc = "rule"
    /\ task'[p][e] # task[p][e]

\* C2: over the interleavings of concurrent SyncRules calls, forced or not,
\* Engine.Sync is never executing in two callers at once for the same
\* (rule, engine) key.
OneSyncPerKey ==
    \A p, q \in Passes, e \in EngineNames :
        (p # q /\ InSync(p, e) /\ InSync(q, e)) => SyncKey(p, e) # SyncKey(q, e)

\* C3: while a sync acquired through SyncStart has not been ended and the
\* lockUpdater pings more often than the lock expires, a non-forced StartSync
\* on its key returns ErrSyncStorageLocked.
HeldKeyStaysLocked ==
    \A p \in Passes, e \in EngineNames :
        (task[p][e].pc = "sync" /\ LockUpdaterInterval < lockExpireTime)
        => StartSyncStorage(db[SyncKey(p, e)], now, lockExpireTime, SyncInterval,
                            FALSE, NewSyncID(SyncKey(p, e))).err = ErrSyncStorageLocked

\* Every goroutine that has left engineSync's loop has called syncRule for
\* every rule of its batch; a goroutine in the loop, for the rules before i.
AllTried ==
    \A p \in Passes, e \in EngineNames :
        LET ids == {pass[p].rules[j].RuleID : j \in DOMAIN pass[p].rules}
        IN  /\ task[p][e].pc = "done" => task[p][e].tried = ids
            /\ task[p][e].pc = "rule" =>
                  task[p][e].tried = {pass[p].rules[j].RuleID : j \in 1 .. task[p][e].i - 1}

\* C7: in a SyncRules call an error of one rule's syncRule (filter, lock
\* acquisition or Engine.Sync) does not stop the pass: the goroutine goes on
\* with the next rule, every goroutine calls syncRule for every rule of the
\* batch, and the goroutines of the other engines are left as they were.
ErrorsDoNotStopPass ==
    [][ /\ AllTried'
        /\ \A p \in Passes, e \in EngineNames :
             (SyncRuleReturns(p, e) /\ ret'.err # Nil)
             => /\ task'[p][e].i = task[p][e].i + 1
                /\ pass' = pass
                /\ \A q \in Passes, f \in EngineNames :
                     << q, f >> # << p, e >> => task'[q][f] = task[q][f] ]_vars

\* The loop's call over both rules is over, one engine counted an error and
\* the other none.
ErrorsDoNotStopPassWitness ==
    /\ started = 1
    /\ pass[1].active /\ Len(pass[1].rules) = 2
    /\ \A e \in EngineNames : task[1][e].pc = "done" /\ task[1][e].tried = {1, 2}
    /\ \E e, f \in EngineNames : failures[e] = 1 /\ failures[f] = 0

\* C8: when Engine.Sync returns an error for a rule whose lock was acquired,
\* one outcome is recorded with Successful = FALSE and the error's text, the
\* lock is released, one failure is counted for the engine, and the goroutine
\* goes on to the next rule.
SyncErrorRecorded ==
    [][ \A p \in Passes, e \in EngineNames :
          (SyncRuleReturns(p, e) /\ task[p][e].pc = "sync" /\ ret'.err # Nil)
          => LET k == SyncKey(p, e)
                 h == db'[k].Syncs
             IN  /\ Len(h) = Len(db[k].Syncs) + 1
                 /\ SubSeq(h, 1, Len(h) - 1) = db[k].Syncs
                 /\ ~h[Len(h)].Successful
                 /\ h[Len(h)].Error = ret'.err
                 /\ ~db'[k].Running
                 /\ failures' = [failures EXCEPT ![e] = @ + 1]
                 /\ task'[p][e].i = task[p][e].i + 1 ]_vars

\* A sync failed: the latest outcome of a key is the failure and the key is
\* released.
SyncErrorRecordedWitness ==
    /\ ret.op = "syncRule" /\ ret.kind = "failed" /\ ret.err = SyncError
    /\ \E k \in Keys :
         /\ Len(db[k].Syncs) > 0
         /\ ~db[k].Syncs[Len(db[k].Syncs)].Successful
         /\ db[k].Syncs[Len(db[k].Syncs)].Error = SyncError
         /\ ~db[k].Running
         /\ failures[k[2]] = 1

\* C9: when SyncStart returns ErrSyncStorageLocked, syncRule returns nil
\* without calling Engine.Sync or SyncEnd: no outcome is recorded, the
\* lockUpdater is left alone and no failure is counted.
LockedIsSilent ==
    [][ \A p \in Passes, e \in EngineNames :
          ( /\ task[p][e].pc = "rule"
            /\ task'[p][e] # task[p][e]
            /\ task'[p][e].pc # "done"
            /\ ret'.op = "syncRule" /\ ret'.kind = "locked" )
          => /\ StartSyncStorage(db[SyncKey(p, e)], now, lockExpireTime,
                                 SyncInterval, pass[p].force,
                                 NewSyncID(SyncKey(p, e))).err = ErrSyncStorageLocked
             /\ ret'.err = Nil
             /\ task'[p][e].pc = "rule"
             /\ db' = db
             /\ updater' = updater
             /\ failures' = failures ]_vars

\* A StartSync was denied while another caller held a key, and nothing was
\* counted as a failure.
LockedIsSilentWitness ==
    /\ ret.op = "syncRule" /\ ret.kind = "locked"
    /\ \E k \in Keys : db[k].Running
    /\ \A e \in EngineNames : failures[e] = 0

\* C10: once the record of a Removed rule had a successful removal-sync as
\* its latest outcome, a reconciliation of the rule (handed to syncRule as
\* Removed) skips Engine.Sync: the latest outcome is a successful
\* removal-sync for as long as the rule is Removed.
RemovalStaysSynced ==
    \A k \in Keys :
        ( /\ removed[k[1]]
          /\ \E j \in DOMAIN db[k].Syncs :
               db[k].Syncs[j].Removed /\ db[k].Syncs[j].Successful )
        => RemovalSynced([RuleID |-> k[1], Removed |-> TRUE], db[k])

(***************************************************************************)
(* Properties of the periodic loop.                                        *)
(***************************************************************************)
\* The key of the j-th rule of the loop's batch for engine e.
LoopKey(j, e) == << pass[LoopPassID].rules[j].RuleID, e >>

\* C11: SyncRules returns only after every engine's goroutine has processed
\* the whole batch: once the loop's call has returned no engineSync of it is
\* running, every goroutine had called syncRule for every rule, and every
\* lock the call acquired has had SyncEnd called (no key is Running, the
\* lockUpdater tracks no sync ID).
ReturnedPassIsOver ==
    loop.pc # "pass"
    => /\ ~pass[LoopPassID].active
       /\ \A e \in EngineNames : task[LoopPassID][e].pc = "idle"
       /\ loop.last \in {"none", "complete"}
       /\ \A k \in Keys : ~db[k].Running
       /\ updater.syncIDSet = {}

\* The loop's first call has returned; both rules were synced, each by one
\* engine, and released.
ReturnedPassIsOverWitness ==
    /\ loop.pc = "wait" /\ loop.last = "complete" /\ started = 1
    /\ \E k1, k2 \in Keys :
         /\ k1[1] # k2[1]
         /\ Len(db[k1].Syncs) = 1 /\ Len(db[k2].Syncs) = 1

\* C12: within one engine's goroutine the rules are reconciled one at a
\* time in the order of the batch: with the goroutine at rule i, syncRule
\* has been called for the rules before i and for no rule after i, the syncs
\* of the rules before i are ended, and only rule i may be held.
InBatchOrder ==
    \A e \in EngineNames :
        LET t == task[LoopPassID][e]
            rules == pass[LoopPassID].rules
            upto == IF t.pc = "sync" THEN t.i ELSE t.i - 1
        IN  t.pc # "idle"
            => /\ t.i \in 1 .. Len(rules) + 1
               /\ t.pc = "done" => t.i = Len(rules) + 1
               /\ t.tried = {rules[j].RuleID : j \in 1 .. upto}
               /\ \A j \in DOMAIN rules :
                    /\ j < t.i => ~db[LoopKey(j, e)].Running
                    /\ j = t.i => (db[LoopKey(j, e)].Running <=> t.pc = "sync")
                    /\ (j > t.i /\ started = 1) => ~db[LoopKey(j, e)].exists

\* A goroutine is in the sync of the second rule after the sync of the first
\* one was ended.
InBatchOrderWitness ==
    \E e \in EngineNames :
        /\ task[LoopPassID][e].pc = "sync" /\ task[LoopPassID][e].i = 2
        /\ Len(db[LoopKey(1, e)].Syncs) = 1
        /\ ~db[LoopKey(1, e)].Running
        /\ db[LoopKey(2, e)].Running

\* C13: ShutdownPeriodicSync returns nil only when the running loop has
\* taken the quit signal, after which RunPeriodicSync has returned and no
\* further pass starts; when the context ends first (also when no loop is
\* running) it returns the context's error and the loop has not been
\* stopped.
ShutdownNilMeansStopped ==
    /\ (shutdown.state = "returned" /\ shutdown.err = Nil)
       => /\ loop.pc = "stopped"
          /\ started = loop.stoppedAt
          /\ ~pass[LoopPassID].active
    /\ (shutdown.state = "returned" /\ shutdown.err # Nil)
       => /\ shutdown.err = CtxError
          /\ loop.pc # "stopped"
    /\ loop.pc = "stopped" => (shutdown.state = "returned" /\ shutdown.err = Nil)
    /\ (shutdown.state = "returned" /\ loop.pc \in {"off", "disabled"})
       => shutdown.err = CtxError

\* ShutdownPeriodicSync returned nil after the loop ran a pass, and time
\* went on beyond the loop's timer without another pass.
ShutdownNilMeansStoppedWitness ==
    /\ shutdown.state = "returned" /\ shutdown.err = Nil
    /\ loop.pc = "stopped" /\ loop.stoppedAt = 1
    /\ now >= loop.timer + SyncInterval

\* C14: a shutdown requested while a periodic pass is in flight does not
\* interrupt it: the pass stays in progress until every goroutine has called
\* syncRule for every rule of the batch, and the loop stops only afterwards.
ShutdownLeavesPass ==
    /\ (shutdown.calledIn = "pass" /\ shutdown.state = "calling" /\ loop.stoppedAt = 0
        /\ loop.pc = "pass")
       => pass[LoopPassID].active
    /\ loop.pc = "stopped"
       => /\ ~pass[LoopPassID].active
          /\ \A e \in EngineNames : task[LoopPassID][e].pc = "idle"
          /\ loop.last \in {"none", "complete"}
    /\ (shutdown.calledIn = "pass" /\ loop.pc = "stopped") => loop.last = "complete"

\* The shutdown was requested during a pass and returned nil after the pass
\* had recorded a sync.
ShutdownLeavesPassWitness ==
    /\ shutdown.calledIn = "pass"
    /\ shutdown.state = "returned" /\ shutdown.err = Nil
    /\ loop.pc = "stopped" /\ loop.last = "complete"
    /\ \E k \in Keys : Len(db[k].Syncs) > 0

\* C15 as stated: every pass of the loop is handed rules that are not marked
\* Removed only.
LoopPassNotRemoved ==
    loop.pc = "pass"
    => /\ ~pass[LoopPassID].force
       /\ \A j \in DOMAIN pass[LoopPassID].rules : ~pass[LoopPassID].rules[j].Removed

\* C15: every pass started by RunPeriodicSync calls SyncRules with
\* force = FALSE on every stored rule, in the order of the IDs, the rules
\* marked Removed included.
LoopPassAllRules ==
    loop.pc = "pass"
    => /\ ~pass[LoopPassID].force
       /\ Len(pass[LoopPassID].rules) = NumRules
       /\ \A j \in 1 .. NumRules : pass[LoopPassID].rules[j].RuleID = j

\* A pass of the loop holds a rule marked Removed.
LoopPassAllRulesWitness ==
    /\ loop.pc = "pass"
    /\ ~pass[LoopPassID].force
    /\ \E j \in DOMAIN pass[LoopPassID].rules :
         pass[LoopPassID].rules[j].Removed /\ removed[pass[LoopPassID].rules[j].RuleID]

(***************************************************************************)
(* Properties of the acl-operator engine.                                  *)
(***************************************************************************)
\* The latest call of Sync.
LastCall == opCalls[Len(opCalls)]

\* The call read an existing resource and no call of the Kubernetes API
\* failed.
ReadTarget(c) ==
    /\ target.exists
    /\ c.get
    /\ c.err \notin {GetError, PatchError}

\* C16: for an app-source rule whose Created plus one minute is not after
\* the stored annotation, Sync on an existing target (the Kubernetes API
\* answering) returns "triggered acl-operator" and sets the annotation to
\* the current time exactly when the annotation is absent or now is more
\* than one minute past the stored timestamp; otherwise it returns
\* "triggered acl-operator in the last minute" and leaves the annotation.
OperatorCooldown ==
    (/\ Len(opCalls) > 0
     /\ opRule.Source = "app"
     /\ ReadTarget(LastCall)
     /\ LastCall.pre.kind # "bad"
     /\ LastCall.pre.kind = "time"
        => opRule.Created + Minute <= ParseRFC3339(LastCall.pre).t)
    => IF \/ LastUpdatedEmpty(LastCall.pre)
          \/ LastCall.at > ParseRFC3339(LastCall.pre).t + Minute
       THEN /\ LastCall.res = Triggered /\ LastCall.err = Nil
            /\ LastCall.patch
            /\ target.annotation = FormatRFC3339(LastCall.at)
       ELSE /\ LastCall.res = TriggeredLastMinute /\ LastCall.err = Nil
            /\ ~LastCall.patch
            /\ target.annotation = LastCall.pre

\* An old rule was synced within the minute of the stored timestamp, without
\* a write, and again after the minute, with a write.
OperatorCooldownWitness ==
    /\ Len(opCalls) = 2
    /\ opRule.Source = "app"
    /\ opCalls[1].res = TriggeredLastMinute
    /\ opCalls[2].res = Triggered
    /\ opCalls[2].pre = opCalls[1].pre
    /\ opRule.Created + Minute <= ParseRFC3339(opCalls[2].pre).t
    /\ target.annotation = FormatRFC3339(opCalls[2].at)
    /\ target.annotation # opCalls[2].pre

\* C17 as stated: after a call that wrote the annotation, a second call
\* within one minute of the written timestamp returns "triggered
\* acl-operator in the last minute" and writes nothing, for every rule.
SecondCallNoOpAsStated ==
    (/\ Len(opCalls) = 2
     /\ opCalls[1].res = Triggered
     /\ ReadTarget(opCalls[2])
     /\ opCalls[2].at <= ParseRFC3339(FormatRFC3339(opCalls[1].at)).t + Minute)
    => /\ opCalls[2].res = TriggeredLastMinute
       /\ ~opCalls[2].patch

\* C17: after a call that wrote the annotation, a second call on the same
\* rule no later than one minute after the written timestamp (the time of
\* the first call in whole seconds) returns "triggered acl-operator in the
\* last minute" and writes nothing, provided the rule's Created plus one
\* minute is not after the written timestamp.
SecondCallNoOp ==
    (/\ Len(opCalls) = 2
     /\ opCalls[1].res = Triggered
     /\ ReadTarget(opCalls[2])
     /\ opCalls[2].at <= ParseRFC3339(FormatRFC3339(opCalls[1].at)).t + Minute
     /\ opRule.Created + Minute <= ParseRFC3339(FormatRFC3339(opCalls[1].at)).t)
    => /\ opCalls[2].res = TriggeredLastMinute
       /\ opCalls[2].err = Nil
       /\ ~opCalls[2].patch
       /\ target.annotation = FormatRFC3339(opCalls[1].at)

\* The first call wrote the annotation and a later call within the minute
\* wrote nothing.
SecondCallNoOpWitness ==
    /\ Len(opCalls) = 2
    /\ opCalls[1].res = Triggered
    /\ opCalls[2].res = TriggeredLastMinute
    /\ opCalls[2].at > opCalls[1].at
    /\ target.annotation = FormatRFC3339(opCalls[1].at)

\* The time the annotation written by a call at time t reads back as.
Stamp(t) == ParseRFC3339(FormatRFC3339(t)).t

\* C33 as stated: two successive calls that both wrote the annotation, for a
\* rule created more than a minute before each of them, are at least one
\* minute apart.
WritesCooldownApart ==
    (/\ Len(opCalls) = 2
     /\ opCalls[1].res = Triggered /\ opCalls[2].res = Triggered
     /\ opCalls[1].at - opRule.Created > Minute
     /\ opCalls[2].at - opRule.Created > Minute)
    => opCalls[2].at - opCalls[1].at >= Minute

\* C33: for a rule whose Created plus one minute is not after the stored
\* timestamp, a call writes the annotation only when now is more than one
\* minute past the stored timestamp; two successive writes, the second by
\* such a rule, are therefore more than one minute past the first one's time
\* in whole seconds, which is more than a minute less a second apart.
WritesAfterStampCooldown ==
    /\ (/\ Len(opCalls) > 0
         /\ LastCall.res = Triggered
         /\ LastCall.pre.kind = "time"
         /\ opRule.Created + Minute <= ParseRFC3339(LastCall.pre).t)
        => LastCall.at > ParseRFC3339(LastCall.pre).t + Minute
    /\ (/\ Len(opCalls) = 2
         /\ opCalls[1].res = Triggered /\ opCalls[2].res = Triggered
         /\ opRule.Created + Minute <= Stamp(opCalls[1].at))
        => /\ opCalls[2].at > Stamp(opCalls[1].at) + Minute
           /\ opCalls[2].at - opCalls[1].at > Minute - TicksPerSecond

\* Two successive calls of a rule created long ago wrote the annotation less
\* than a minute apart.
WritesAfterStampCooldownWitness ==
    /\ Len(opCalls) = 2
    /\ opCalls[1].res = Triggered /\ opCalls[2].res = Triggered
    /\ opRule.Created + Minute <= Stamp(opCalls[1].at)
    /\ opCalls[2].at - opCalls[1].at < Minute

\* C18: for a rule created less than a minute ago, Sync on an existing
\* target with a timestamp annotation (the Kubernetes API answering) returns
\* "triggered acl-operator" and writes the annotation, also when the stored
\* timestamp is less than a minute old.
RecentRuleTriggers ==
    (/\ Len(opCalls) > 0
     /\ opRule.Source \in {"app", "job"}
     /\ ReadTarget(LastCall)
     /\ LastCall.pre.kind = "time"
     /\ LastCall.at - opRule.Created < Minute)
    => /\ LastCall.res = Triggered /\ LastCall.err = Nil
       /\ LastCall.patch
       /\ target.annotation = FormatRFC3339(LastCall.at)

\* A rule created less than a minute ago was synced twice in that minute and
\* the second call wrote the annotation the first one had just written.
RecentRuleTriggersWitness ==
    /\ Len(opCalls) = 2
    /\ opCalls[1].res = Triggered
    /\ opCalls[2].res = Triggered
    /\ opCalls[2].pre = FormatRFC3339(opCalls[1].at)
    /\ opCalls[2].at - opRule.Created < Minute
    /\ opCalls[2].at <= ParseRFC3339(opCalls[2].pre).t + Minute

\* C19: for a rule whose source resolves to a pool with a provisioner other
\* than kubernetes, the resolver looks up no cluster and Sync returns a nil
\* result and a nil error without reading or patching the resource.
NonKubernetesIsNoOp ==
    (/\ Len(opCalls) > 0
     /\ opRule.Source \in {"app", "job"}
     /\ opRule.Provisioner # "kubernetes"
     /\ LastCall.err # PoolError)
    => /\ LastCall.res = NoResult /\ LastCall.err = Nil
       /\ ~LastCall.lookup /\ ~LastCall.get /\ ~LastCall.patch
       /\ target.annotation = LastCall.pre

\* Sync was called for a rule of a docker pool whose resource exists with a
\* timestamp more than a minute old.
NonKubernetesIsNoOpWitness ==
    /\ Len(opCalls) > 0
    /\ opRule.Source \in {"app", "job"}
    /\ opRule.Provisioner = "docker"
    /\ LastCall.err = Nil
    /\ target.exists /\ target.annotation.kind = "time"
    /\ LastCall.at > ParseRFC3339(target.annotation).t + Minute

\* C20: when the stored annotation is present and no RFC3339 timestamp, Sync
\* (the Kubernetes API answering) writes the annotation with the current
\* time and returns "triggered acl-operator" with no error.
UnparsableIsRewritten ==
    (/\ Len(opCalls) > 0
     /\ opRule.Source \in {"app", "job"}
     /\ target.exists
     /\ LastCall.get
     /\ LastCall.err \notin {GetError, PatchError}
     /\ LastCall.pre.kind = "bad")
    => /\ LastCall.res = Triggered /\ LastCall.err = Nil
       /\ LastCall.patch
       /\ target.annotation = FormatRFC3339(LastCall.at)

\* C21: Sync on a job-source rule of a kubernetes pool whose CronJob exists
\* with no prior annotation, every lookup answering, returns "triggered
\* acl-operator" and sets the last-updated annotation on the CronJob.
JobSyncTriggers ==
    (/\ Len(opCalls) > 0
     /\ opRule.Source = "job"
     /\ opRule.Provisioner = "kubernetes"
     /\ target.exists
     /\ LastCall.pre = NoAnnotation
     /\ LastCall.err = Nil)
    => /\ LastCall.res = Triggered
       /\ LastCall.patch
       /\ target.annotation = FormatRFC3339(LastCall.at)

(***************************************************************************)
(* Properties of the lockUpdater.                                          *)
(***************************************************************************)
\* C22: stop() returns only after the loop has taken the stop signal: from
\* then on the loop has exited and neither receives an ID nor pings; and
\* the loop run() starts has an empty set until its first event, whatever
\* was tracked before.
StopThenRunFresh ==
    /\ lu.stop = "stopped" => (lu.pc = "exited" /\ ~lu.touched)
    /\ (lu.fresh /\ lu.stop # "stopped") => lu.u.syncIDSet = {}

\* run() has been called after a stop(), no event has been taken yet, and a
\* caller still holds a sync it had enqueued before the stop.
StopThenRunFreshWitness ==
    /\ lu.restarts = 1 /\ lu.stop = "idle" /\ lu.fresh
    /\ lu.pc = "select"
    /\ \E c \in Callers : lu.callers[c].pc = "held"

\* C23: when every successful SyncStart has been followed by its SyncEnd
\* (no caller is inside SyncStart, holds a sync or is inside SyncEnd), the
\* tracked set is empty.
AllEndedSetEmpty ==
    (\A c \in Callers : lu.callers[c].pc = "idle") => lu.u.syncIDSet = {}

\* Both callers have made their syncs, two of them had held the same sync ID
\* at once, and all are ended.
AllEndedSetEmptyWitness ==
    /\ \A c \in Callers : lu.callers[c].pc = "idle" /\ lu.callers[c].done = MaxLocks
    /\ lu.shared
    /\ lu.restarts = 0

\* C28: while the loop has never been stopped, every sync acquired through
\* SyncStart that has not reached SyncEnd has its ID in the tracked set,
\* also when another holder of the same key ended first.
HeldIsTracked ==
    (lu.pc # "off" /\ lu.restarts = 0 /\ lu.stop = "idle")
    => \A c \in Callers :
          lu.callers[c].pc = "held" => lu.callers[c].id \in lu.u.syncIDSet

\* Whether some caller is between its StartSync on the key and its dequeue.
OtherHolder(k) ==
    \E c \in Callers :
        lu.callers[c].key = k /\ lu.callers[c].pc \in {"enqueue", "held"}

\* C34: SyncEnd takes the sync ID out of the tracked set before it persists
\* the outcome: once EndSync has set Running to false, and no other holder
\* of the key is syncing, the ID is not in the set the loop pings, so no
\* ping changes the record's PingTime.
EndedNotPinged ==
    \A k \in UpdKeys :
        (db[k].exists /\ ~db[k].Running /\ ~OtherHolder(k))
        => db[k].SyncID \notin lu.u.syncIDSet

\* A sync of (r1, e1) has ended and nobody holds the key, while the loop is
\* about to ping the sync of the other key.
EndedNotPingedWitness ==
    /\ db[<< 1, 1 >>].exists /\ ~db[<< 1, 1 >>].Running
    /\ Len(db[<< 1, 1 >>].Syncs) > 0
    /\ ~OtherHolder(<< 1, 1 >>)
    /\ lu.pc = "ping"
    /\ lu.u.syncIDSet = {db[<< 2, 1 >>].SyncID}
    /\ db[<< 2, 1 >>].exists

\* C35: a failure to obtain or to reach the sync storage in the keep-alive
\* loop is only logged: after it the loop is back in its select with the
\* set it had, and goes on pinging.
PingFailureOnlyLogged ==
    lu.last \in {"pingError", "getError"}
    => lu.pc = "select" /\ lu.u.syncIDSet # {}

\* C36: enqueue and dequeue never block forever: a caller blocked in its
\* send has a running loop that receives from the channel it sends on.
SendersServed ==
    lu.pc # "panic"
    => \A c \in Callers :
          lu.callers[c].ch # NoChan
          => lu.callers[c].ch = lu.restarts /\ lu.pc \in {"select", "ping"}

\* C27: an EndSync by the holder whose lock expired, made after another
\* caller re-acquired the key, leaves the lock of the new holder: the record
\* is still Running and a non-forced StartSync is still denied.
LateEndKeepsLock ==
    (/\ ret.op = "EndSync" /\ ret.late
     /\ holders[ret.key] = 1)
    => /\ db[ret.key].Running
       /\ \A after \in StoreAfters :
             ~QueryMatches(db[ret.key], now, after,
                           ExpireTime(after, lockExpireTime), FALSE)

(***************************************************************************)
(* Properties of syncRule within the passes of the periodic loop.          *)
(***************************************************************************)
\* The goroutine of engine e is inside syncRule for the rule of key k,
\* between its SyncStart and its SyncEnd.
HoldsKey(e, k) ==
    /\ k[2] = e
    /\ task[LoopPassID][e].pc = "sync"
    /\ pass[LoopPassID].rules[task[LoopPassID][e].i].RuleID = k[1]

\* C29: every successful SyncStart of syncRule is followed by one SyncEnd
\* before syncRule returns, whether Engine.Sync succeeded, failed or was
\* skipped for a removal already synced: a key is Running exactly while its
\* goroutine is between the two, every acquisition that is over has left
\* one outcome, and a pass leaves at most one outcome per key.
AcquiredIsEnded ==
    \A k \in Keys :
        LET held == IF db[k].Running THEN 1 ELSE 0
        IN  /\ db[k].Running <=> HoldsKey(k[2], k)
            /\ db[k].exists => Len(db[k].Syncs) + held >= 1
            /\ Len(db[k].Syncs) + held <= started
            /\ started = 1 => (db[k].exists => Len(db[k].Syncs) + held = 1)

\* A pass skipped Engine.Sync for a removal that was already synced, and
\* the skipped sync was ended like the one before it.
AcquiredIsEndedWitness ==
    /\ ret.op = "syncRule" /\ ret.kind = "skipped"
    /\ \E k \in Keys :
         /\ Len(db[k].Syncs) = 2
         /\ ~db[k].Running
    /\ updater.syncIDSet = {}

\* C30: when Allowed returns false for a rule, syncRule returns nil without
\* a lock acquisition: the sync records and their histories, the
\* lockUpdater and the failure counters stay as they are and Engine.Sync is
\* not entered; when Allowed returns an error, the error is counted as one
\* failure of the engine and likewise nothing is acquired.
FilterTakesNoLock ==
    [][ \A p \in Passes, e \in EngineNames :
          ( /\ task[p][e].pc = "rule"
            /\ task'[p][e] # task[p][e]
            /\ task'[p][e].pc # "done"
            /\ ret'.op = "syncRule"
            /\ ret'.kind \in {"not-allowed", "filter-error"} )
          => /\ e \in FilterEngines
             /\ task'[p][e].pc = "rule"
             /\ db' = db
             /\ updater' = updater
             /\ ret'.kind = "not-allowed"
                => (ret'.err = Nil /\ failures' = failures)
             /\ ret'.kind = "filter-error"
                => /\ ret'.err = FilterError
                   /\ failures' = [failures EXCEPT ![e] = @ + 1] ]_vars

\* The filter of an engine returned an error for a rule: one failure is
\* counted and the engine has no sync record, while the other engine has
\* acquired a key.
FilterTakesNoLockWitness ==
    /\ ret.op = "syncRule" /\ ret.kind = "filter-error"
    /\ \E e \in FilterEngines :
         /\ failures[e] = 1
         /\ \A r \in RuleIDs : ~db[<< r, e >>].exists
    /\ \E k \in Keys : db[k].exists

(***************************************************************************)
(* Properties of the logic cache and the app rule logic.                   *)
(***************************************************************************)
\* C24: on one LogicCache, over the interleavings of LogicFromRule calls of
\* concurrent goroutines, logicFromRuleType is called at most once per
\* source descriptor and every call with that descriptor, whatever the
\* destination of its rule, returns the same object: the one in the cache,
\* a stored nil included.
OneLogicPerSource ==
    \A k \in CacheKeys :
        /\ lc.made[k] <= 1
        /\ Cardinality(lc.returned[k]) <= 1
        /\ lc.returned[k] # {} => lc.returned[k] = {lc.cache[k]}

\* Both goroutines got the object of an app source, for rules of different
\* destinations, and both got the stored nil of the job source.
OneLogicPerSourceWitness ==
    /\ \E k \in CacheKeys :
         /\ k[1] = "app"
         /\ lc.made[k] = 1
         /\ \E x, y \in lc.rets[k] : x[1] # y[1] /\ x[2] # y[2]
    /\ \E k \in CacheKeys :
         /\ k[1] = "job"
         /\ lc.made[k] = 1
         /\ lc.returned[k] = {NilLogic}
         /\ Cardinality(lc.rets[k]) >= 2

\* C25: resolving an app descriptor whose app name and pool name are both
\* empty fails with "rule must have an app name or a pool name" and sends no
\* request (no AppInfo, PoolInfo or PoolCluster).
EmptyRuleFailsFast ==
    \A t \in EngineNames :
        LET tk == lc.tasks[t]
        IN  (/\ tk.resolved.done
             /\ tk.rule.Source.kind = "app"
             /\ tk.rule.Source.AppName = "" /\ tk.rule.Source.PoolName = "")
            => /\ tk.resolved.err = "rule must have an app name or a pool name"
               /\ tk.resolved.reqs = << >>
               /\ ~tk.resolved.handle

\* One goroutine resolved the empty app descriptor and another one an app
\* by name, which sent its requests.
EmptyRuleFailsFastWitness ==
    /\ \E t \in EngineNames :
         /\ lc.tasks[t].resolved.done
         /\ lc.tasks[t].rule.Source.AppName = ""
         /\ lc.tasks[t].rule.Source.PoolName = ""
         /\ lc.tasks[t].resolved.err = EmptyRuleError
    /\ \E t \in EngineNames :
         /\ lc.tasks[t].resolved.done
         /\ lc.tasks[t].resolved.reqs = << "AppInfo", "PoolInfo", "PoolCluster" >>

(***************************************************************************)
(* Properties of rule validation.                                          *)
(***************************************************************************)
\* C26: RuleType.Validate returns no error only for a descriptor with
\* exactly one endpoint kind set, and Save stores a rule only if Validate
\* accepts both its source and its destination: every stored rule is a rule
\* of the request whose two descriptors pass and have one kind each.
SavedOnlyIfValid ==
    val.pc = "done" =>
        /\ \A i \in 1 .. Len(val.rules) :
             \A side \in {val.rules[i].Source, val.rules[i].Destination} :
                Validate(side) = Nil => Cardinality(KindsSet(side)) = 1
        /\ \A i \in 1 .. Len(val.stored) :
             /\ i <= Len(val.rules)
             /\ [val.stored[i] EXCEPT !.RuleID = ""] = val.rules[i]
             /\ Validate(val.stored[i].Source) = Nil
             /\ Validate(val.stored[i].Destination) = Nil
             /\ Cardinality(KindsSet(val.stored[i].Source)) = 1
             /\ Cardinality(KindsSet(val.stored[i].Destination)) = 1

\* A request of two rules was stored whole, the first from an external DNS
\* name to an app.
SavedOnlyIfValidWitness ==
    /\ val.pc = "done"
    /\ val.err.msg = Nil
    /\ Len(val.stored) = MaxSaveRules
    /\ val.stored[1].Source.ExternalDNS.set
    /\ val.stored[1].Destination.TsuruApp.set

(***************************************************************************)
(* Properties of StartSync's decision and retry hint.                      *)
(***************************************************************************)
\* The latest call was a non-forced StartSync on a key that had a record.
StartOnRecord == ret.op = "StartSync" /\ ~ret.force /\ ret.pre.exists

\* What the same call answers on the same record with the Running bit
\* inverted.
OtherRunning ==
    StartSyncStorage([ret.pre EXCEPT !.Running = ~@], now, lockExpireTime,
                     ret.after, FALSE, ret.pre.SyncID).err

\* C32 as stated: a non-forced StartSync on a record gives the same
\* acquire/deny answer for the record's PingTime age whether the record is
\* Running or not.
ReclaimIgnoresRunning ==
    StartOnRecord => (ret.err = Nil <=> OtherRunning = Nil)

\* C32: a non-forced StartSync acquires a Running record exactly when its
\* PingTime is older than the larger of the expiry time and `after`, and a
\* record that is not Running exactly when its PingTime is older than
\* `after`; the answers for the two values of the Running bit are the same
\* when `after` is not below the expiry time.
ReclaimByAge ==
    StartOnRecord =>
        /\ ret.pre.Running =>
              (ret.err = Nil <=> now - ret.pre.PingTime > Max(lockExpireTime, ret.after))
        /\ ~ret.pre.Running => (ret.err = Nil <=> now - ret.pre.PingTime > ret.after)
        /\ ret.err # Nil => ret.err = ErrSyncStorageLocked
        /\ ret.after >= lockExpireTime => (ret.err = Nil <=> OtherRunning = Nil)

\* A Running record pinged longer ago than `after` but not longer than the
\* expiry time was denied to a caller that would have got it released.
ReclaimByAgeWitness ==
    /\ StartOnRecord
    /\ ret.pre.Running
    /\ ret.err = ErrSyncStorageLocked
    /\ now - ret.pre.PingTime > ret.after
    /\ ret.after >= 0
    /\ OtherRunning = Nil

\* The retry of a denied call d later, with nothing done on the key since.
RetryAfter(d) ==
    StartSyncStorage(db[ret.key], now + d, lockExpireTime, ret.after, FALSE,
                     db[ret.key].SyncID).err

\* The hint of the latest StartSync as the claim gives it.
HintAsClaimed ==
    /\ ret.err = Nil => ret.next = ret.after
    /\ (ret.err # Nil /\ ret.pre.Running) => ret.next = ret.after
    /\ (ret.err # Nil /\ ~ret.pre.Running) =>
          ret.next = ret.after - (now - ret.pre.PingTime)

\* C38 as stated: the hint is `after` on success and on a denial by a
\* Running record, `after` less the age of PingTime on a denial by a record
\* that is not Running, and the same call made when that hint has elapsed
\* succeeds.
HintRetryAtHint ==
    ret.op = "StartSync" =>
        /\ HintAsClaimed
        /\ (ret.err # Nil /\ ~ret.pre.Running) =>
              \A d \in 0 .. MaxTime : d >= ret.next => RetryAfter(d) = Nil

\* C38: the hint is as stated, and the same call made later than the hint
\* after the denial succeeds (at the hint exactly the record is still
\* denied, with a hint of zero).
HintRetry ==
    ret.op = "StartSync" =>
        /\ HintAsClaimed
        /\ (ret.err # Nil /\ ~ret.pre.Running) =>
              /\ ret.next >= 0
              /\ \A d \in 0 .. MaxTime : d > ret.next => RetryAfter(d) = Nil
              /\ RetryAfter(ret.next) = ErrSyncStorageLocked

\* A released record denied a caller with part of the interval left.
HintRetryWitness ==
    /\ ret.op = "StartSync"
    /\ ret.err = ErrSyncStorageLocked
    /\ ~ret.pre.Running
    /\ ret.next > 0 /\ ret.next < ret.after

(***************************************************************************)
(* Properties of locks on distinct keys.                                   *)
(***************************************************************************)
OthersUnchanged(k) == \A j \in Keys : j # k => db'[j] = db[j]

\* A call on one key leaves the record of every other key as it was.
KeysFrame ==
    \A k \in KeysOfRule :
        /\ (\E after \in KeysAfters : StoreStartSync(k, after, FALSE))
              => OthersUnchanged(k)
        /\ StoreEndSync(k) => OthersUnchanged(k)
        /\ (db[k].exists /\ StorePingSyncs({db[k].SyncID})) => OthersUnchanged(k)

\* What StartSync decides on a key follows from that key's record alone, the
\* records of two keys carry different sync IDs, and a key's record keeps
\* its sync ID when it is acquired again.
KeysApart ==
    /\ ret.op = "StartSync" /\ ~ret.force =>
          (ret.err = Nil <=> KeyFree(ret.pre, now, ret.after, lockExpireTime))
    /\ ret.op = "StartSync" /\ ret.force => ret.err = Nil
    /\ \A j, k \in Keys :
          j # k /\ db[j].exists /\ db[k].exists => db[j].SyncID # db[k].SyncID
    /\ ret.op = "StartSync" /\ ret.pre.exists =>
          db[ret.key].SyncID = ret.pre.SyncID

\* C37: locks on distinct (rule, engine) keys never interfere: StartSync,
\* EndSync and PingSyncs on one key leave every other key's record
\* unchanged, a lock held on (r1, e1) does not deny StartSync on (r1, e2),
\* the two keys get different sync IDs, and one key keeps the same sync ID
\* across its cycles.
KeysIndependent == []KeysApart /\ [][KeysFrame]_vars

\* (r1, e1) is held and fresh, it was acquired a second time under the ID it
\* had, and the latest call acquired (r1, e2), not forced.
KeysIndependentWitness ==
    /\ db[<< 1, 1 >>].exists /\ db[<< 1, 1 >>].Running
    /\ holders[<< 1, 1 >>] > 0
    /\ now - db[<< 1, 1 >>].PingTime <= lockExpireTime
    /\ Len(db[<< 1, 1 >>].Syncs) >= 1
    /\ ret.op = "StartSync" /\ ret.key = << 1, 2 >>
    /\ ~ret.force /\ ~ret.pre.exists /\ ret.err = Nil
    /\ db[<< 1, 2 >>].SyncID # db[<< 1, 1 >>].SyncID

(***************************************************************************)
(* Properties of the hooks.                                                *)
(***************************************************************************)
HookOps(ev, op) == {j \in 1 .. Len(ev) : ev[j].op = op}

\* C31: for every engine with hooks, each SyncRules call invokes BeforeSync
\* exactly once, before the first rule and with the LogicCache made for
\* that call, and AfterSync exactly once, after the last rule, whatever
\* errors the rules or BeforeSync return; two calls never share a cache.
HooksOncePerCall ==
    /\ \A p \in Passes, e \in WithHooks :
          LET c == hk.call[p]
              t == c.eng[e]
              ev == t.events
          IN  c.cache # 0 =>
                /\ t.pc = "start" => ev = << >>
                /\ t.pc # "start" =>
                      /\ HookOps(ev, "BeforeSync") = {1}
                      /\ ev[1].arg = c.cache
                      /\ \A j \in 1 .. t.i : ev[j + 1] = [op |-> "syncRule", arg |-> j]
                /\ t.pc = "rules" => HookOps(ev, "AfterSync") = {} /\ Len(ev) = t.i + 1
                /\ t.pc = "done" =>
                      /\ t.i = c.n
                      /\ Len(ev) = c.n + 2
                      /\ HookOps(ev, "AfterSync") = {c.n + 2}
    /\ \A p, q \in Passes :
          (p # q /\ hk.call[p].cache # 0) => hk.call[p].cache # hk.call[q].cache
    /\ \A p \in Passes, e \in EngineNames \ WithHooks :
          /\ HookOps(hk.call[p].eng[e].events, "BeforeSync") = {}
          /\ HookOps(hk.call[p].eng[e].events, "AfterSync") = {}

\* Two calls are in progress with their own caches; in one of them the engine
\* with hooks is through a full batch in which something returned an error.
HooksOncePerCallWitness ==
    /\ \A p \in Passes : hk.call[p].active
    /\ \E p \in Passes, e \in WithHooks :
          /\ hk.call[p].n = MaxHookRules
          /\ hk.call[p].eng[e].pc = "done"
          /\ hk.call[p].eng[e].errs
          /\ Len(hk.call[p].eng[e].events) = MaxHookRules + 2
    /\ hk.started = MaxHookCalls

(***************************************************************************)
(* Properties of PoolCluster.                                              *)
(***************************************************************************)
\* The kubernetes clusters that list the pool, and those flagged default.
Listing == {i \in 1 .. Len(cl.clusters) :
               /\ cl.clusters[i].Provisioner = kubernetesProvisioner
               /\ cl.pool.Name \in cl.clusters[i].Pools}
Defaults == {i \in 1 .. Len(cl.clusters) :
               /\ cl.clusters[i].Provisioner = kubernetesProvisioner
               /\ cl.clusters[i].Default}

\* C39: for a kubernetes pool PoolCluster returns the kubernetes cluster
\* whose pool list has the pool's name (the first of them), before or after
\* the default cluster in the list; when no cluster lists the pool it
\* returns the cluster flagged default (the last of them), and
\* ErrClusterNotFound when there is neither.
PoolClusterByPool ==
    (/\ cl.pc = "done"
     /\ cl.pool.Provisioner = kubernetesProvisioner
     /\ ~cl.clustersErr)
    => /\ Listing # {} =>
             /\ cl.ret.err = Nil
             /\ cl.ret.cluster \in Listing
             /\ \A i \in Listing : cl.ret.cluster <= i
       /\ (Listing = {} /\ Defaults # {}) =>
             /\ cl.ret.err = Nil
             /\ cl.ret.cluster \in Defaults
             /\ \A i \in Defaults : cl.ret.cluster >= i
       /\ (Listing = {} /\ Defaults = {}) =>
             /\ cl.ret.err = ErrClusterNotFound
             /\ cl.ret.cluster = NoCluster

\* The cluster of the pool comes after the default cluster in the list and
\* is the one returned.
PoolClusterByPoolWitness ==
    /\ cl.pc = "done"
    /\ cl.pool.Provisioner = kubernetesProvisioner /\ ~cl.clustersErr
    /\ Len(cl.clusters) = MaxClusters
    /\ Defaults # {} /\ Listing # {}
    /\ \A i \in Defaults : i < cl.ret.cluster
    /\ cl.ret.cluster \in Listing \ Defaults

(***************************************************************************)
(* Properties of the service's AddRule.                                    *)
(***************************************************************************)
\* The ports of a list with their protocols in lower case.
PortSet(ports) ==
    {<< ToLower(ports[i].Protocol), ports[i].Port >> : i \in 1 .. Len(ports)}

\* Two destinations of the same kind with the same fields: ports are the
\* same in any order and in either case of the protocol.
SameDestination(a, b) ==
    /\ \A k \in DOMAIN NoType : a[k].set = b[k].set
    /\ a.TsuruApp = b.TsuruApp /\ a.TsuruJob = b.TsuruJob
    /\ a.RpaasInstance = b.RpaasInstance
    /\ a.ExternalDNS.Name = b.ExternalDNS.Name
    /\ PortSet(a.ExternalDNS.Ports) = PortSet(b.ExternalDNS.Ports)
    /\ a.ExternalIP.IP = b.ExternalIP.IP
    /\ PortSet(a.ExternalIP.Ports) = PortSet(b.ExternalIP.Ports)

\* C40: AddRule with a valid destination returns ErrRuleAlreadyExists
\* exactly when the instance has a base rule, not removed, with the same
\* destination (the same kind and the same fields), and otherwise adds the
\* rule.
AddRuleRejectsSameDestination ==
    (si.last.op = "AddRule" /\ Validate(si.last.r.Destination) = Nil)
    => /\ si.last.err = ErrRuleAlreadyExists
          <=> \E i \in 1 .. Len(si.last.pre) :
                 /\ ~si.last.pre[i].Removed
                 /\ SameDestination(si.last.pre[i].Destination, si.last.r.Destination)
       /\ si.last.err # ErrRuleAlreadyExists
          => /\ Len(si.BaseRules) = Len(si.last.pre) + 1
             /\ si.BaseRules[Len(si.BaseRules)].Destination = si.last.r.Destination
       /\ si.last.err = ErrRuleAlreadyExists => si.BaseRules = si.last.pre
====
